---- MODULE Spec2Model ----
(***************************************************************************)
(* Verification model of the voice-clone repository.                       *)
(*                                                                         *)
(*   Spec, FairSpec : the streaming speech-to-text session manager of      *)
(*                    WhisperService and the /api/stt/stream route.        *)
(*   CursorSpec     : the same manager on one session with the shortest    *)
(*                    partial list, long enough to run past its end.       *)
(*   ApiSpec        : the SQLite access layer under the /api/clone and     *)
(*                    /api/tts routes.                                     *)
(*   SttSpec        : WhisperService.speechToText.                         *)
(*   RouteSpec      : the /api/tts, /api/clone and /api/stt routes with    *)
(*                    the bodies and forms a client can send.              *)
(*   ClientSpec,                                                           *)
(*   ClientFairSpec : the streaming recorder of SpeechToText.tsx.          *)
(*   LifeSpec,                                                             *)
(*   LifeFairSpec   : WhisperService around waitForReady and cleanup().    *)
(*   DbSpec         : the Database from its constructor on, operations     *)
(*                    called while initialize() is still running.          *)
(*   CheckSpec      : /api/clone with status checks that overlap.          *)
(*                                                                         *)
(* Texts that are not ASCII in the source are written as ASCII tags        *)
(* ("zh.partial.1" is the first entry of the zh partial list); the         *)
(* English entries are the source's strings.                               *)
(***************************************************************************)
EXTENDS Integers, Sequences, FiniteSets, TLC

(***************************************************************************)
(* Bounds of the model.                                                    *)
(***************************************************************************)
\* initStreamingSession calls that create a session object
MaxSessions == 2
\* chunks stored in one session object
MaxChunks == 2
\* streamingSpeechToText calls suspended in their 200 ms await at once
MaxInflight == 1
\* the same three bounds under CursorSpec
MaxCursorSessions == 2
MaxCursorChunks == 5
MaxCursorInflight == 2
\* rows ever inserted into voice_models and into audio_records
MaxVoiceModels == 2
MaxAudioRecords == 2
\* GET and DELETE requests on /api/clone waiting for a database statement
\* at once
MaxPendingGets == 1
MaxPendingDeletes == 1
\* rows of voice_models and GET requests under way at once where status
\* checks overlap
MaxCheckedModels == 2
MaxOverlappingGets == 2
\* rows the POST routes may add to audio_records
MaxRouteRecords == 1

\* starts of a streaming recording in the client, and chunks they deliver
MaxRecordings == 2

MaxBlobs == 2

\* the service with cleanup(): session objects, chunks of a session, calls
\* suspended in the 200 ms await, and calls made on a service not ready
MaxLifeSessions == 1

MaxLifeChunks == 1

MaxLifeInflight == 1

MaxCalls == 1

\* Database operations called on one instance
MaxDbCalls == 3

(***************************************************************************)
(* Program constants.                                                      *)
(***************************************************************************)
\* const expiredThreshold = 30 * 60 * 1000
ExpiredThreshold == 1800000

\* text.length > 5000
MaxTextLength == 5000

\* speed < 0.5 || speed > 2.0, in tenths
MinSpeed == 5
MaxSpeed == 20

\* MAX_FILE_SIZE = 100 * 1024 * 1024
MAX_FILE_SIZE == 104857600

\* modelName.length > 100
MaxNameLength == 100

\* MAX_FILE_SIZE = 50 * 1024 * 1024 of /api/stt
STT_MAX_FILE_SIZE == 52428800

(***************************************************************************)
(* Inputs.                                                                 *)
(***************************************************************************)
\* session ids a request may name; "" is a missing sessionId
SessionIds == {"s1", "s2"}
\* the language of a PUT body; "" is a missing language.  "ko" has no
\* streaming lists, "constructor" is a member of Object.prototype.
InitLanguages == {"", "ko", "constructor"}
\* the inputs of CursorSpec: "ja" has the shortest partial list, of 4
CursorSessionIds == {"s1"}
CursorLanguages == {"ja", "constructor"}
\* the model of a PUT body; "" is a missing model
InitModels == {""}
\* the model of a speechToText request; "" is a missing model
ModelNames == {"", "tiny"}
\* the language of a speechToText request; "" is a missing language
SttLanguages ==
    {"", "auto", "xx", "constructor", "toString",
     "zh", "zh-tw", "zh-yue", "en", "ja", "ko", "es", "fr", "de", "ru",
     "pt", "it", "ar", "hi", "th", "vi"}
\* the user_id parameter of a request; 0 is a missing one
UserParams == {0, 2}
\* the name of a POST /api/clone
CloneNames == {"n1"}
\* the model ids the cloning service hands out
Handles == {"m1", "m2"}
\* the status strings the cloning service reports; "" is an empty status
ReportedStatuses == {"training", "ready", "failed", "queued", ""}
\* the status strings it reports to a status check
CheckedStatuses == {"ready", "failed", "queued"}
\* the replies to a status check
StatusReplies ==
    {[kind |-> "ok", status |-> s] : s \in CheckedStatuses}
      \cup {[kind |-> "not-ok", status |-> ""], [kind |-> "throws", status |-> ""]}
\* the replies to the status checks that overlap
CheckReplies ==
    {[kind |-> "ok", status |-> s] : s \in {"ready", "failed"}}
      \cup {[kind |-> "not-ok", status |-> ""]}
\* the id parameter of a DELETE /api/clone after parseInt; 0 is no id
IdParams == 0..3
\* the session id and the language of the requests made around cleanup()
LifeSessionIds == {"s1"}

LifeLanguages == {"ko"}

\* the language of a POST body; "" is none (language || undefined)
ChunkLanguages == {"", "en"}

\* the audioChunk of a POST body (base64); "" is a missing chunk
AudioChunks == {"", "QQ=="}

(***************************************************************************)
(* Time is kept relative: a session holds the milliseconds since its       *)
(* lastActivity (Date.now() - session.lastActivity, counted up to one past *)
(* the expiry threshold, beyond which nothing distinguishes two values).   *)
(* The 200 ms await of a call and the 5 s deferred deletion are pending    *)
(* events below the resolution of that clock: they fire in the order the   *)
(* delays force (calls first in first out, a deletion after every call     *)
(* that was suspended when it was scheduled), and before idle time grows.  *)
(***************************************************************************)
VARIABLES
    isInitialized,      \* WhisperService.isInitialized
    streamingSessions,  \* WhisperService.streamingSessions: session id -> object
    heap,               \* the session objects, by identity
    nextObj,            \* session objects allocated so far
    inflight,           \* streamingSpeechToText calls suspended in the 200 ms await
    timers,             \* pending deferred deletions of final chunks, each
                        \* with the session object its call worked on
    resp,               \* the request being answered: its response and log
    accepted,           \* per session id: chunks stored since its last init
    models,             \* WhisperService.models: the names of the loaded models
    sttResult,          \* what the last speechToText call returned
    users,              \* the ids of the rows of table users
    foreignKeys,        \* whether this SQLite enforces foreign keys
    voice_models,       \* table voice_models: id -> row
    audio_records,      \* table audio_records: id -> row
    voiceModelSeq,      \* sqlite_sequence of voice_models
    audioRecordSeq,     \* sqlite_sequence of audio_records
    apiPending,         \* /api/clone requests waiting for a statement
    apiResp,            \* the API request being answered
    isRecording,        \* SpeechToText state isRecording
    streamingSession,   \* SpeechToText state streamingSession
    isProcessingAudio,  \* SpeechToText state isProcessingAudio
    stopRecording,      \* the state the memoized stopRecording closes over
    mediaRecorderRef,   \* mediaRecorderRef.current: a recording, 0 for null
    streamRef,          \* streamRef.current: the stream of a recording, 0 for null
    chunkCounterRef,    \* chunkCounterRef.current
    audioQueueRef,      \* audioQueueRef.current
    recordings,         \* per start of a recording: how far it has come
    loops,              \* the processAudioQueue loops that hold a chunk
    blobs,              \* the chunks the recorders have delivered so far
    deletes,            \* the DELETE requests on their way
    serverSessions,     \* the session ids the server knows
    posted,             \* the chunk POSTs, in the order they were sent
    deleteSent,         \* the session ids a DELETE was sent for
    notFound,           \* the chunks answered 'Session not found'
    cleaned,            \* whether WhisperService.cleanup() has run
    callSeq,            \* the service calls made on a service that was not ready
    waiting,            \* the calls suspended in waitForReady, with their attempts
    thrown,             \* the calls that waitForReady has thrown in
    loading,            \* the models of the loadModel calls in their 2 s await
    initState,          \* Database.ready: pending ("running"), resolved, rejected
    initStep,           \* the CREATE TABLE statements that have completed
    dbLog,              \* the statements issued on the connection, in order
    dbWaiting,          \* the Database operations suspended in waitForReady
    dbRejected,         \* the Database operations that rejected on this.ready
    dbCalls             \* the Database operations called so far

streamVars == <<isInitialized, streamingSessions, heap, nextObj, inflight,
                timers, resp, accepted>>

sttVars == <<models, sttResult>>

apiVars == <<users, foreignKeys, voice_models, audio_records, voiceModelSeq,
             audioRecordSeq, apiPending, apiResp>>

clientVars == <<isRecording, streamingSession, isProcessingAudio, stopRecording,
                mediaRecorderRef, streamRef, chunkCounterRef, audioQueueRef,
                recordings, loops, blobs, deletes, serverSessions, posted,
                deleteSent, notFound>>

lifeVars == <<cleaned, callSeq, waiting, thrown, loading>>

dbVars == <<initState, initStep, dbLog, dbWaiting, dbRejected, dbCalls>>

vars == <<streamVars, sttVars, apiVars, clientVars, lifeVars, dbVars>>

Min(a, b) == IF a < b THEN a ELSE b

Range(s) == {s[i] : i \in DOMAIN s}

(***************************************************************************)
(* getLanguageSampleTexts: the canned partial and final lists.             *)
(***************************************************************************)
SampleTexts ==
    [zh |-> [hasLists |-> TRUE,
             partial |-> <<"zh.partial.1", "zh.partial.2", "zh.partial.3",
                           "zh.partial.4", "zh.partial.5", "zh.partial.6">>,
             final   |-> <<"zh.final.1", "zh.final.2", "zh.final.3",
                           "zh.final.4">>],
     en |-> [hasLists |-> TRUE,
             partial |-> <<"Hello...", "Hello, this is...",
                           "Hello, this is a test...",
                           "Hello, this is a test audio...",
                           "Hello, this is a test audio transcription...">>,
             final   |-> <<"Hello, this is a test audio transcription in English.",
                           "The weather is nice today, perfect for a walk outside.",
                           "I am testing the real-time speech recognition functionality.",
                           "This is a real-time transcription test for a voice cloning project.">>],
     ja |-> [hasLists |-> TRUE,
             partial |-> <<"ja.partial.1", "ja.partial.2", "ja.partial.3",
                           "ja.partial.4">>,
             final   |-> <<"ja.final.1", "ja.final.2", "ja.final.3">>]]

\* Keys every object literal inherits from Object.prototype: sampleTexts[key]
\* is then a function or object, truthy, with no partial and no final list.
ObjectPrototypeKeys == {"constructor", "toString", "valueOf", "hasOwnProperty", "__proto__"}

\* return sampleTexts[language] || sampleTexts.zh
getLanguageSampleTexts(language) ==
    IF language \in DOMAIN SampleTexts THEN SampleTexts[language]
    ELSE IF language \in ObjectPrototypeKeys
         THEN [hasLists |-> FALSE, partial |-> <<>>, final |-> <<>>]
         ELSE SampleTexts["zh"]

\* const language = session.language === 'auto' ? 'zh' : session.language
ResponseLanguage(sessionLanguage) ==
    IF sessionLanguage = "auto" THEN "zh" ELSE sessionLanguage


(***************************************************************************)
(* Values.                                                                 *)
(***************************************************************************)
\* Buffer.from(audioChunk, 'base64'): the bytes of the chunks the model sends
Base64Decode(audioChunk) ==
    IF audioChunk = "QQ==" THEN <<65>> ELSE <<>>

NoFinalResult ==
    [present |-> FALSE, language |-> "", totalChunks |-> 0, partialResults |-> <<>>]

\* expiredLog: the ids of console.log(`Expired session cleaned up: ...`);
\* requestLanguage: the language field of the chunk that is answered
NoResp ==
    [op |-> "none", sessionId |-> "", status |-> 0, success |-> FALSE,
     error |-> "", text |-> "", partialText |-> "", isPartial |-> FALSE,
     isFinal |-> FALSE, language |-> "", finalResult |-> NoFinalResult,
     expiredLog |-> {}, requestLanguage |-> ""]

\* NextResponse.json({ error }, { status })
ErrorResp(op, sessionId, status, error) ==
    [NoResp EXCEPT !.op = op, !.sessionId = sessionId, !.status = status,
                   !.error = error]

\* The session objects some reference still reaches: the map's values and the
\* `session` locals of the suspended calls.  The others are garbage.
Reachable(sessions, calls) ==
    Range(sessions) \cup {calls[i].obj : i \in DOMAIN calls}

Collect(h, sessions, calls) ==
    [o \in Reachable(sessions, calls) |-> h[o]]

\* Map.clear() in the place of Map.delete(k)
RemoveEveryKey(f, k) == [x \in {} |-> f[x]]

RemoveKey(f, k) == [x \in DOMAIN f \ {k} |-> f[x]]

PutKey(f, k, v) == [x \in DOMAIN f \cup {k} |-> IF x = k THEN v ELSE f[x]]

(***************************************************************************)
(* WhisperService: the streaming session manager.                          *)
(***************************************************************************)
\* if (now - session.lastActivity > expiredThreshold) this.streamingSessions.delete(sessionId)
\* expired from 30 minutes on
IsExpiredAtThreshold(session) == session.idle >= ExpiredThreshold

IsExpired(session) == session.idle > ExpiredThreshold

\* the sweep forgotten
cleanupExpiredSessionsSkipped(sessions, h) == sessions

cleanupExpiredSessions(sessions, h) ==
    [s \in {x \in DOMAIN sessions : ~IsExpired(h[sessions[x]])} |-> sessions[s]]

\* the object initStreamingSession stores under params.sessionId
\* (createdAt, read only for the reported duration, is left out)
NewSession(sessionId, language, model) ==
    [sessionId |-> sessionId,
     language |-> IF language = "" THEN "auto" ELSE language,
     model |-> IF model = "" THEN "base" ELSE model,
     audioBuffer |-> <<>>,
     partialResults |-> <<>>,
     idle |-> 0]

\* one buffer array shared by every session object
StoreChunkShared(h, o, buffer) ==
    [x \in DOMAIN h |->
        [h[x] EXCEPT !.idle = IF x = o THEN 0 ELSE @,
                     !.audioBuffer = Append(@, buffer)]]

\* session.lastActivity = Date.now(); session.audioBuffer.push(request.audioBuffer)
StoreChunk(h, o, buffer) ==
    [h EXCEPT ![o].idle = 0,
              ![o].audioBuffer = Append(@, buffer)]

\* const partialIndex = Math.min(chunkIndex, sampleTexts.partial.length - 1)
\* (zero-based in the source, one-based here)
PartialIndex(session, partial) ==
    Min(Len(session.audioBuffer) - 1, Len(partial) - 1) + 1

\* The branch of streamingSpeechToText after the await, for a session whose
\* language has lists; k is the final text Math.random() picks.
ProcessChunk(session, isFirstChunk, isFinalChunk, sampleTexts, k) ==
    IF isFirstChunk
    THEN [partialResults |-> <<sampleTexts.partial[1]>>,
          text |-> "",
          partialText |-> sampleTexts.partial[1],
          isPartial |-> TRUE,
          isFinal |-> isFinalChunk,
          schedule |-> FALSE]
    ELSE IF isFinalChunk
    THEN [partialResults |-> session.partialResults,
          text |-> sampleTexts.final[k],
          partialText |-> sampleTexts.final[k],
          isPartial |-> FALSE,
          isFinal |-> isFinalChunk,
          schedule |-> TRUE]
    ELSE [partialResults |->
              Append(session.partialResults,
                     sampleTexts.partial[PartialIndex(session, sampleTexts.partial)]),
          text |-> "",
          partialText |-> sampleTexts.partial[PartialIndex(session, sampleTexts.partial)],
          isPartial |-> TRUE,
          isFinal |-> isFinalChunk,
          schedule |-> FALSE]

\* if (!sttResult.success) ... { status: 500 }
PostStatus(success) == IF success THEN 200 ELSE 500

\* const session = this.streamingSessions.get(request.sessionId)
HasSession(sessions, sessionId) == sessionId \in DOMAIN sessions

\* the summary cleanupStreamingSession returns for an existing session
FinalResult(session) ==
    [present |-> TRUE,
     language |-> session.language,
     totalChunks |-> Len(session.audioBuffer),
     partialResults |-> session.partialResults]

(***************************************************************************)
(* Initial state: the singleton right after construction.                  *)
(***************************************************************************)
StreamInit ==
    /\ isInitialized = TRUE
    /\ streamingSessions = <<>>
    /\ heap = <<>>
    /\ nextObj = 0
    /\ inflight = <<>>
    /\ timers = <<>>
    /\ resp = NoResp
    /\ accepted = [s \in SessionIds |-> 0]

(***************************************************************************)
(* PUT /api/stt/stream and initStreamingSession.                           *)
(***************************************************************************)
PutSession(sessionId, language, model) ==
    /\ resp = NoResp
    /\ isInitialized
    /\ LET swept == cleanupExpiredSessions(streamingSessions, heap)
           o == nextObj + 1
           sessions == PutKey(swept, sessionId, o)
           h == [x \in DOMAIN heap \cup {o} |->
                    IF x = o THEN NewSession(sessionId, language, model)
                    ELSE heap[x]]
       IN /\ streamingSessions' = sessions
          /\ heap' = Collect(h, sessions, inflight)
          /\ nextObj' = o
    /\ accepted' = [accepted EXCEPT ![sessionId] = 0]
    /\ resp' = [NoResp EXCEPT !.op = "init", !.sessionId = sessionId,
                              !.status = 200, !.success = TRUE,
                              !.language = IF language = "" THEN "auto" ELSE language,
                              !.expiredLog =
                                  DOMAIN streamingSessions \
                                    DOMAIN cleanupExpiredSessions(streamingSessions, heap)]
    /\ UNCHANGED <<isInitialized, inflight, timers,
                   sttVars, apiVars, clientVars, lifeVars, dbVars>>

(***************************************************************************)
(* POST /api/stt/stream and streamingSpeechToText.                         *)
(***************************************************************************)
\* if (!audioChunk) 400; if (!sessionId) 400
PostInvalid(sessionId, audioChunk) ==
    /\ resp = NoResp
    /\ audioChunk = "" \/ sessionId = ""
    /\ resp' = ErrorResp("chunk", sessionId, 400,
                         IF audioChunk = "" THEN "Audio chunk is required"
                         ELSE "Session ID is required")
    /\ UNCHANGED <<isInitialized, streamingSessions, heap, nextObj, inflight,
                   timers, accepted,
                   sttVars, apiVars, clientVars, lifeVars, dbVars>>

\* if (!session) return { success: false, error: `Session not found: ...` }
PostNotFound(sessionId, audioChunk) ==
    /\ resp = NoResp
    /\ audioChunk # "" /\ sessionId # ""
    /\ isInitialized
    /\ ~HasSession(streamingSessions, sessionId)
    /\ resp' = ErrorResp("chunk", sessionId, PostStatus(FALSE), "Session not found")
    /\ UNCHANGED <<isInitialized, streamingSessions, heap, nextObj, inflight,
                   timers, accepted,
                   sttVars, apiVars, clientVars, lifeVars, dbVars>>

\* The call up to its await: the chunk is stored and the call suspends.
PostAccepted(sessionId, audioChunk, isFirstChunk, isFinalChunk, language) ==
    /\ resp = NoResp
    /\ audioChunk # "" /\ sessionId # ""
    /\ isInitialized
    /\ HasSession(streamingSessions, sessionId)
    /\ LET o == streamingSessions[sessionId]
       IN /\ heap' = StoreChunk(heap, o, Base64Decode(audioChunk))
          /\ inflight' = Append(inflight,
                 [sessionId |-> sessionId, obj |-> o, language |-> language,
                  isFirstChunk |-> isFirstChunk, isFinalChunk |-> isFinalChunk])
    /\ accepted' = [accepted EXCEPT ![sessionId] = @ + 1]
    /\ UNCHANGED <<isInitialized, streamingSessions, nextObj, timers, resp,
                   sttVars, apiVars, clientVars, lifeVars, dbVars>>

\* the language a call answers with, were it the one of its chunk
CallLanguageOfChunk(call, session) ==
    IF call.language # "" THEN call.language ELSE ResponseLanguage(session.language)

\* the language a suspended call works and answers with
CallLanguage(call, session) == ResponseLanguage(session.language)

\* A suspended call resumed: the deferred deletions scheduled while it was
\* suspended wait for one call fewer (200 ms < 5000 ms).
Unblock(ts) ==
    [i \in DOMAIN ts |->
        [ts[i] EXCEPT !.blockers = IF @ > 0 THEN @ - 1 ELSE 0]]

\* The call after its await, for a language without lists: reading
\* sampleTexts.partial[0] (or .final.length, .partial.length) throws, and the
\* catch returns success false.
ResumeThrows ==
    /\ resp = NoResp
    /\ inflight # <<>>
    /\ LET call == Head(inflight)
           session == heap[call.obj]
           language == CallLanguage(call, session)
       IN /\ ~getLanguageSampleTexts(language).hasLists
          /\ resp' = ErrorResp("chunk", call.sessionId, PostStatus(FALSE),
                               "Streaming STT conversion failed")
    /\ inflight' = Tail(inflight)
    /\ heap' = Collect(heap, streamingSessions, Tail(inflight))
    /\ timers' = Unblock(timers)
    /\ UNCHANGED <<isInitialized, streamingSessions, nextObj, accepted,
                   sttVars, apiVars, clientVars, lifeVars, dbVars>>

\* The call after its await: the result, the session's partialResults and,
\* for a final chunk, the deferred deletion.
ResumeReturns ==
    /\ resp = NoResp
    /\ inflight # <<>>
    /\ LET call == Head(inflight)
           session == heap[call.obj]
           language == CallLanguage(call, session)
           sampleTexts == getLanguageSampleTexts(language)
       IN /\ sampleTexts.hasLists
          /\ \E k \in 1..Len(sampleTexts.final) :
               LET r == ProcessChunk(session, call.isFirstChunk, call.isFinalChunk,
                                     sampleTexts, k)
                   h == [heap EXCEPT ![call.obj].partialResults = r.partialResults]
               IN /\ heap' = Collect(h, streamingSessions, Tail(inflight))
                  /\ timers' = IF r.schedule
                               THEN Append(Unblock(timers),
                                           [sessionId |-> call.sessionId,
                                            obj |-> call.obj,
                                            blockers |-> Len(Tail(inflight))])
                               ELSE Unblock(timers)
                  /\ resp' = [NoResp EXCEPT
                                !.op = "chunk", !.sessionId = call.sessionId,
                                !.status = PostStatus(TRUE), !.success = TRUE,
                                !.text = r.text, !.partialText = r.partialText,
                                !.isPartial = r.isPartial, !.isFinal = r.isFinal,
                                !.language = language,
                                !.requestLanguage = call.language]
    /\ inflight' = Tail(inflight)
    /\ UNCHANGED <<isInitialized, streamingSessions, nextObj, accepted,
                   sttVars, apiVars, clientVars, lifeVars, dbVars>>

\* The deferred deletion of a final chunk fires.
FinalTimerFires ==
    /\ resp = NoResp
    /\ timers # <<>>
    /\ Head(timers).blockers = 0
    /\ LET sessions == RemoveKey(streamingSessions, Head(timers).sessionId)
       IN /\ streamingSessions' = sessions
          /\ heap' = Collect(heap, sessions, inflight)
    /\ timers' = Tail(timers)
    /\ UNCHANGED <<isInitialized, nextObj, inflight, resp, accepted,
                   sttVars, apiVars, clientVars, lifeVars, dbVars>>

(***************************************************************************)
(* DELETE /api/stt/stream and cleanupStreamingSession.                     *)
(***************************************************************************)
DeleteInvalid ==
    /\ resp = NoResp
    /\ resp' = ErrorResp("cleanup", "", 400, "Session ID is required")
    /\ UNCHANGED <<isInitialized, streamingSessions, heap, nextObj, inflight,
                   timers, accepted,
                   sttVars, apiVars, clientVars, lifeVars, dbVars>>

DeleteSession(sessionId) ==
    /\ resp = NoResp
    /\ LET sessions == RemoveKey(streamingSessions, sessionId)
       IN /\ streamingSessions' = sessions
          /\ heap' = Collect(heap, sessions, inflight)
    /\ resp' = [NoResp EXCEPT
                  !.op = "cleanup", !.sessionId = sessionId, !.status = 200,
                  !.success = TRUE,
                  !.finalResult = IF HasSession(streamingSessions, sessionId)
                                  THEN FinalResult(heap[streamingSessions[sessionId]])
                                  ELSE NoFinalResult]
    /\ UNCHANGED <<isInitialized, nextObj, inflight, timers, accepted,
                   sttVars, apiVars, clientVars, lifeVars, dbVars>>

(***************************************************************************)
(* The clock and the delivery of responses.                                *)
(***************************************************************************)
MappedIdles == {heap[streamingSessions[s]].idle : s \in DOMAIN streamingSessions}

\* The instants at which the sweep's test can change: the idle time of a
\* session reaches the threshold, or first exceeds it.
TickSteps ==
    {ExpiredThreshold - i : i \in {j \in MappedIdles : j < ExpiredThreshold}}
      \cup {1 : i \in {j \in MappedIdles : j = ExpiredThreshold}}

\* d milliseconds pass.
Tick(d) ==
    /\ resp = NoResp
    /\ inflight = <<>>
    /\ timers = <<>>
    /\ heap' = [o \in DOMAIN heap |->
                  [heap[o] EXCEPT !.idle = Min(@ + d, ExpiredThreshold + 1)]]
    /\ UNCHANGED <<isInitialized, streamingSessions, nextObj, inflight, timers,
                   resp, accepted,
                   sttVars, apiVars, clientVars, lifeVars, dbVars>>

\* The response reaches the client.
Deliver ==
    /\ resp # NoResp
    /\ resp' = NoResp
    /\ UNCHANGED <<isInitialized, streamingSessions, heap, nextObj, inflight,
                   timers, accepted,
                   sttVars, apiVars, clientVars, lifeVars, dbVars>>

(***************************************************************************)
(* WhisperService.speechToText and detectLanguage.                         *)
(*                                                                         *)
(* A sample sentence is written as the pair of its table and its position  *)
(* in the table; no sentence occurs in two tables.                         *)
(***************************************************************************)
\* the keys of languageSpecificResults
TableLanguages ==
    {"zh", "zh-tw", "zh-yue", "en", "ja", "ko", "es", "fr", "de", "ru",
     "pt", "it", "ar", "hi", "th", "vi"}

\* languageSpecificResults[language], for a key of the literal
languageSpecificResults(language) ==
    [i \in 1..(IF language \in {"zh", "en", "ja", "ko"} THEN 5 ELSE 4) |->
        [language |-> language, index |-> i]]

\* the text of a result whose text is undefined
UndefinedText == [language |-> "", index |-> 0]

\* What languageSpecificResults[targetLanguage] evaluates to: a table, a
\* member of Object.prototype (truthy, and its [..] is undefined), or
\* undefined.
LookupKind(language) ==
    IF language \in TableLanguages THEN "table"
    ELSE IF language \in ObjectPrototypeKeys THEN "inherited"
    ELSE "undefined"

\* Math.random() in percent, at the edges of detectLanguage's weights; 101
\* stands for a draw above the accumulated weights, which only the rounding
\* of their sum can produce.
Randoms ==
    {0, 45, 46, 65, 66, 73, 74, 83, 84, 90, 91, 93, 94, 96, 97, 98, 99, 100, 101}

\* Math.random() in percent, for the choice of a sample
SampleRandoms == {0, 20, 40, 60, 80, 99}

\* detectLanguage: the weighted choice

detectLanguage(random) ==
    IF random <= 45 THEN "zh"
    ELSE IF random <= 65 THEN "en"
    ELSE IF random <= 73 THEN "zh-tw"
    ELSE IF random <= 83 THEN "ja"
    ELSE IF random <= 90 THEN "ko"
    ELSE IF random <= 93 THEN "zh-yue"
    ELSE IF random <= 96 THEN "es"
    ELSE IF random <= 98 THEN "fr"
    ELSE IF random <= 99 THEN "de"
    ELSE IF random <= 100 THEN "ru"
    ELSE "zh"

\* samples[Math.floor(Math.random() * samples.length)]
PickSample(samples, random) == samples[((random * Len(samples)) \div 100) + 1]

NoSttResult ==
    [success |-> FALSE, text |-> UndefinedText, language |-> "", error |-> "",
     requested |-> "", detected |-> ""]

\* The result of speechToText once the model is loaded.  language "" is a
\* request without language; requested and detected record the request's
\* language and what detectLanguage returned ("" when it was not called).
speechToText(language, random, random2) ==
    IF language # "" /\ LookupKind(language) = "table"
    THEN [success |-> TRUE,
          text |-> PickSample(languageSpecificResults(language), random2),
          language |-> language, error |-> "",
          requested |-> language, detected |-> ""]
    ELSE IF language # "" /\ LookupKind(language) = "inherited"
    THEN [success |-> TRUE, text |-> UndefinedText,
          language |-> language, error |-> "",
          requested |-> language, detected |-> ""]
    ELSE LET targetLanguage == detectLanguage(random)
         IN IF LookupKind(targetLanguage) = "table"
            THEN [success |-> TRUE,
                  text |-> PickSample(languageSpecificResults(targetLanguage), random2),
                  language |-> targetLanguage, error |-> "",
                  requested |-> language, detected |-> targetLanguage]
            ELSE [success |-> TRUE,
                  text |-> languageSpecificResults("zh")[1],
                  language |-> "zh", error |-> "",
                  requested |-> language, detected |-> targetLanguage]

\* const modelName = request.model || this.defaultModel
ModelName(model) == IF model = "" THEN "base" ELSE model

SttInit ==
    /\ models = {}
    /\ sttResult = NoSttResult

\* One speechToText call on the initialised service: the model is loaded if
\* it is not, and the result is returned.
SpeechToText(language, model) ==
    /\ isInitialized
    /\ models' = models \cup {ModelName(model)}
    /\ \E random \in Randoms, random2 \in SampleRandoms :
           sttResult' = speechToText(language, random, random2)
    /\ UNCHANGED <<isInitialized, streamingSessions, heap, nextObj, inflight,
                   timers, resp, accepted, apiVars, clientVars, lifeVars, dbVars>>

(***************************************************************************)
(* Database: the SQLite tables and the statements of the access layer.     *)
(*                                                                         *)
(* A table is a function from the ids of its rows to the rows.  A          *)
(* statement that violates a constraint changes nothing and rejects.       *)
(***************************************************************************)
\* the table declared without the CHECK
StatusCheckMissing(status) == TRUE

\* CHECK(status IN ('training', 'ready', 'failed'))
StatusCheck(status) == status \in {"training", "ready", "failed"}

\* CHECK(type IN ('tts', 'stt', 'clone'))
TypeCheck(type) == type \in {"tts", "stt", "clone"}

\* FOREIGN KEY (user_id) REFERENCES users (id): checked only by a build of
\* SQLite that enforces foreign keys; no PRAGMA foreign_keys is issued.
ForeignKeyCheck(user_id) == foreignKeys => user_id \in users

\* a value that is undefined in the source; bound as NULL
Undefined == "<undefined>"

\* model_id TEXT NOT NULL
NotNull(value) == value # Undefined

\* the INSERT of createVoiceModel passes the constraints
VoiceModelAccepted(model) ==
    /\ NotNull(model.model_id)
    /\ StatusCheck(model.status)
    /\ ForeignKeyCheck(model.user_id)

\* the INSERT of createAudioRecord passes the constraints
AudioRecordAccepted(record) ==
    /\ TypeCheck(record.type)
    /\ ForeignKeyCheck(record.user_id)

\* id INTEGER PRIMARY KEY AUTOINCREMENT: one more than the largest id the
\* table ever held
RowId(table, sequence) == sequence + 1

Insert(table, id, row) ==
    [i \in DOMAIN table \cup {id} |-> IF i = id THEN row ELSE table[i]]

\* the SELECT without its WHERE user_id = ?
getVoiceModelsOfAnyUser(userId) == DOMAIN voice_models

\* SELECT * FROM voice_models WHERE user_id = ?
getVoiceModels(userId) ==
    {i \in DOMAIN voice_models : voice_models[i].user_id = userId}

\* UPDATE voice_models SET status = ? WHERE id = ?
updateVoiceModelStatus(table, id, status) ==
    IF id \in DOMAIN table /\ StatusCheck(status)
    THEN [table EXCEPT ![id].status = status]
    ELSE table

\* DELETE FROM voice_models WHERE id = ?
deleteVoiceModel(table, id) == [i \in DOMAIN table \ {id} |-> table[i]]

(***************************************************************************)
(* /api/clone, /api/tts and /api/stt.                                      *)
(***************************************************************************)
NoCloneResult == [success |-> FALSE, model_id |-> Undefined, status |-> ""]

\* A value of a JSON body or of a form field: its typeof, the length of a
\* string, whether a string spells a number, and the number (of a number,
\* a boolean or a numeric string) in tenths.
JsValue(type, length, numeric, n) ==
    [type |-> type, length |-> length, numeric |-> numeric, n |-> n]

JsUndefined == JsValue("undefined", 0, FALSE, 0)

JsNull == JsValue("object", 0, FALSE, 0)

JsString(length) == JsValue("string", length, FALSE, 0)

JsNumber(n) == JsValue("number", 0, TRUE, n)

\* the body of a POST /api/tts
TtsBody(text, speed) == [route |-> "tts", text |-> text, speed |-> speed]

NoBody == [route |-> "none"]

\* what a POST answers with: the audio, the transcript or the model id
NoPayload == [kind |-> "none"]

\* how the statements of a save end, the constraints apart: all run, or the
\* INSERT of the voice model or of the audio record fails (an I/O error, a
\* locked file, a failed initialize())
DbOutcomes == {"ok", "model", "record"}

\* ToNumber of the relational operators: NaN for undefined, for an object
\* and for a string that spells no number; 0 for null
NaN == [nan |-> TRUE, n |-> 0]

ToNumber(value) ==
    IF value = JsNull THEN [nan |-> FALSE, n |-> 0]
    ELSE IF value.type \in {"number", "boolean"} \/
            (value.type = "string" /\ value.numeric)
         THEN [nan |-> FALSE, n |-> value.n]
         ELSE NaN

\* a < b of JavaScript: false when either side is NaN
LessThan(a, b) == ~a.nan /\ ~b.nan /\ a.n < b.n

\* !value
Falsy(value) ==
    \/ value.type = "undefined"
    \/ value = JsNull
    \/ value.type = "string" /\ value.length = 0
    \/ value.type \in {"number", "boolean"} /\ value.n = 0

\* const { text, speed = 1.0 } = body
SpeedOf(body) == IF body.speed.type = "undefined" THEN JsNumber(10) ELSE body.speed

\* the input validation of POST /api/tts: "ok", or the test that answers 400
TtsValidation(body) ==
    IF Falsy(body.text) \/ body.text.type # "string" THEN "text"
    ELSE IF body.text.length > MaxTextLength THEN "length"
    ELSE IF \/ LessThan(ToNumber(SpeedOf(body)), [nan |-> FALSE, n |-> MinSpeed])
            \/ LessThan([nan |-> FALSE, n |-> MaxSpeed], ToNumber(SpeedOf(body)))
         THEN "speed"
         ELSE "ok"

\* the text of a POST /api/tts: absent, a number, strings around the limit
TtsTexts ==
    {JsUndefined, JsNumber(70), JsString(0), JsString(1),
     JsString(MaxTextLength), JsString(MaxTextLength + 1)}
\* its speed: absent, null, numbers around the limits, the strings "1.5" and
\* "fast"
TtsSpeeds ==
    {JsUndefined, JsNull, JsNumber(MinSpeed - 1), JsNumber(MinSpeed),
     JsNumber(MaxSpeed), JsNumber(MaxSpeed + 1),
     JsValue("string", 3, TRUE, 15), JsValue("string", 4, FALSE, 0)}
\* a short text at the default speed
PlainTtsBody == TtsBody(JsString(1), JsUndefined)

ALLOWED_AUDIO_TYPES ==
    {"audio/wav", "audio/mp3", "audio/mpeg", "audio/ogg", "audio/webm",
     "audio/m4a", "audio/aac"}

\* A field of the multipart form of POST /api/clone, as formData.get()
\* returns it: null when absent, a string, or a File. text, length and
\* blank are those of a string (blank: trim() leaves nothing), mime and size
\* those of a File.
FormNull ==
    [type |-> "null", text |-> "", length |-> 0, blank |-> TRUE,
     mime |-> "", size |-> 0]

FormString(text, length, blank) ==
    [type |-> "string", text |-> text, length |-> length, blank |-> blank,
     mime |-> "", size |-> 0]

FormFile(mime, size) ==
    [type |-> "file", text |-> "", length |-> 0, blank |-> FALSE,
     mime |-> mime, size |-> size]

CloneForm(audio, name) == [route |-> "clone", audio |-> audio, name |-> name]

\* !field
FormFalsy(field) ==
    field.type = "null" \/ (field.type = "string" /\ field.length = 0)

\* the input validation of POST /api/clone: "ok", the test that answers
\* 400, or "throws" where modelName.trim is not a function (a File sent as
\* the name), which the catch of the route answers with 500
CloneValidation(form) ==
    IF FormFalsy(form.audio) THEN "audio"
    ELSE IF FormFalsy(form.name) THEN "name"
    ELSE IF form.name.type = "file" THEN "throws"
    ELSE IF form.name.blank THEN "name"
    ELSE IF form.name.length > MaxNameLength THEN "length"
    ELSE IF form.audio.type # "file" \/ form.audio.mime \notin ALLOWED_AUDIO_TYPES
         THEN "type"
    ELSE IF form.audio.size > MAX_FILE_SIZE THEN "size"
    ELSE "ok"

\* the audio field: absent, a text field, files around the size limit and
\* of other types
CloneAudios ==
    {FormNull, FormString("a", 1, FALSE), FormFile("audio/wav", 1),
     FormFile("audio/aac", MAX_FILE_SIZE), FormFile("audio/wav", MAX_FILE_SIZE + 1),
     FormFile("text/plain", 1), FormFile("", 1)}

\* the name field: absent, empty, blank, names around the length limit, a
\* File
CloneNameFields ==
    {FormNull, FormString("", 0, TRUE), FormString("", 2, TRUE),
     FormString("n1", 2, FALSE), FormString("n2", MaxNameLength, FALSE),
     FormString("n3", MaxNameLength + 1, FALSE), FormFile("audio/wav", 1)}

\* a small wav file under the given name
PlainCloneForm(modelName) ==
    CloneForm(FormFile("audio/wav", 1), FormString(modelName, 2, FALSE))

\* What an API request is answered with, and what it asked: user_id, idParam
\* and modelId are those of a POST or DELETE; cloneResult is what cloneVoice
\* returned to it; reported and model_info are the status and the row a
\* status check answers with (0: no row); deleted is the id in
\* deleted_model.
\* checked holds, for a GET, the rows it checked with the status the cloning
\* service reported for each, and others the rows among them whose status
\* another GET changed while this one was under way (kept for the claims).
\* external is the service call a POST made ("none": no call), body the
\* body it was sent with, serviceOk whether the call succeeded and payload
\* the result in the response.
NoApiResp ==
    [op |-> "none", status |-> 0, user_id |-> 0, idParam |-> 0, modelId |-> "",
     cloneResult |-> NoCloneResult, warning |-> FALSE, reported |-> "",
     model_info |-> 0, deleted |-> 0, external |-> "none", body |-> NoBody,
     serviceOk |-> FALSE, payload |-> NoPayload, checked |-> {}, others |-> {}]

\* the save of a record failing answers as an error
StatusAfterSaveStrict(saved) == IF saved THEN 200 ELSE 500

\* the status after the service call succeeded: the catch around the save
\* logs and goes on (the clone route answers from inside the catch)
StatusAfterSave(saved) == 200

\* the status of a POST: 400 from the validation, 500 from the outer catch
\* and from a failed service call
RouteStatus(validation, serviceOk, saved) ==
    IF validation = "throws" THEN 500
    ELSE IF validation # "ok" THEN 400
    ELSE IF ~serviceOk THEN 500
    ELSE StatusAfterSave(saved)

\* cloneVoice: status: result.status || 'training'
CloneStatus(status) ==
    IF status = "" \/ status = Undefined THEN "training" ELSE status

\* the name stored where the handle belongs
PersistedModelIdFromName(cloneResult, modelName) == modelName

\* model_id: cloneResult.model_id!
PersistedModelId(cloneResult, modelName) == cloneResult.model_id

\* createVoiceModel's argument in POST /api/clone
\* (status: cloneResult.status || 'training')
ClonedModel(userId, cloneResult, modelName) ==
    [user_id |-> userId,
     model_id |-> PersistedModelId(cloneResult, modelName),
     model_name |-> modelName,
     status |-> CloneStatus(cloneResult.status)]

\* parseInt(formData.get('user_id')) || 1, parseInt(searchParams.get(..) || '1')
UserIdOf(param) == IF param = 0 THEN 1 ELSE param

\* cloneVoice: the reply of the cloning service turned into a CloneResponse
cloneVoice(ok, model_id, status) ==
    IF ok
    THEN [success |-> TRUE, model_id |-> model_id, status |-> CloneStatus(status)]
    ELSE NoCloneResult

\* checkModelStatus: 'unknown' when the reply is not ok, 'error' when the
\* request throws, the reported status otherwise
checkModelStatus(reply) ==
    IF reply.kind = "not-ok" THEN "unknown"
    ELSE IF reply.kind = "throws" THEN "error"
    ELSE reply.status

ApiInit ==
    /\ users \in {{}, {1}}
    /\ foreignKeys \in BOOLEAN
    /\ voice_models = <<>>
    /\ audio_records = <<>>
    /\ voiceModelSeq = 0
    /\ audioRecordSeq = 0
    /\ apiPending = {}
    /\ apiResp = NoApiResp

\* a fresh database nobody uses
ApiQuiet ==
    /\ users = {}
    /\ foreignKeys = FALSE
    /\ voice_models = <<>>
    /\ audio_records = <<>>
    /\ voiceModelSeq = 0
    /\ audioRecordSeq = 0
    /\ apiPending = {}
    /\ apiResp = NoApiResp

\* POST /api/clone; reply is what cloneVoice returns, should it be called.
PostClone(userParam, form, reply, io) ==
    /\ apiResp = NoApiResp
    /\ LET userId == UserIdOf(userParam)
           validation == CloneValidation(form)
           called == validation = "ok"
           cloneResult == IF called THEN reply ELSE NoCloneResult
           model == ClonedModel(userId, cloneResult, form.name.text)
           record == [user_id |-> userId, type |-> "clone"]
           modelSaved == /\ cloneResult.success
                         /\ io # "model"
                         /\ VoiceModelAccepted(model)
           recordSaved == /\ modelSaved
                          /\ io # "record"
                          /\ AudioRecordAccepted(record)
           modelRowId == RowId(voice_models, voiceModelSeq)
           recordRowId == RowId(audio_records, audioRecordSeq)
       IN /\ voice_models' = IF modelSaved
                             THEN Insert(voice_models, modelRowId, model)
                             ELSE voice_models
          /\ voiceModelSeq' = IF modelSaved THEN modelRowId ELSE voiceModelSeq
          /\ audio_records' = IF recordSaved
                              THEN Insert(audio_records, recordRowId, record)
                              ELSE audio_records
          /\ audioRecordSeq' = IF recordSaved THEN recordRowId ELSE audioRecordSeq
          /\ apiResp' = [NoApiResp EXCEPT
                           !.op = "clone",
                           !.status = RouteStatus(validation,
                                                  cloneResult.success,
                                                  recordSaved),
                           !.user_id = userId,
                           !.cloneResult = cloneResult,
                           !.warning = cloneResult.success /\ ~recordSaved,
                           !.external = IF called THEN "clone" ELSE "none",
                           !.body = form,
                           !.serviceOk = cloneResult.success,
                           !.payload =
                               IF cloneResult.success
                               THEN [kind |-> "model",
                                     model_id |-> cloneResult.model_id]
                               ELSE NoPayload]
    /\ UNCHANGED <<users, foreignKeys, apiPending, streamVars, sttVars, clientVars, lifeVars, dbVars>>

\* POST /api/tts; ttsOk is the outcome of textToSpeech, should it be
\* called.
PostTts(userParam, body, ttsOk, io) ==
    /\ apiResp = NoApiResp
    /\ LET userId == UserIdOf(userParam)
           called == TtsValidation(body) = "ok"
           record == [user_id |-> userId, type |-> "tts"]
           recordSaved == /\ called
                          /\ ttsOk
                          /\ io # "record"
                          /\ AudioRecordAccepted(record)
           recordRowId == RowId(audio_records, audioRecordSeq)
       IN /\ audio_records' = IF recordSaved
                              THEN Insert(audio_records, recordRowId, record)
                              ELSE audio_records
          /\ audioRecordSeq' = IF recordSaved THEN recordRowId ELSE audioRecordSeq
          /\ apiResp' = [NoApiResp EXCEPT
                           !.op = "tts",
                           !.status = RouteStatus(TtsValidation(body), ttsOk,
                                                  recordSaved),
                           !.user_id = userId,
                           !.external = IF called THEN "tts" ELSE "none",
                           !.body = body,
                           !.serviceOk = called /\ ttsOk,
                           !.payload = IF called /\ ttsOk
                                       THEN [kind |-> "audio"]
                                       ELSE NoPayload]
    /\ UNCHANGED <<users, foreignKeys, voice_models, voiceModelSeq, apiPending,
                   streamVars, sttVars, clientVars, lifeVars, dbVars>>

\* the input validation of POST /api/stt
SttValidation(form) ==
    IF FormFalsy(form.audio) THEN "audio"
    ELSE IF form.audio.type # "file" \/ form.audio.mime \notin ALLOWED_AUDIO_TYPES
         THEN "type"
    ELSE IF form.audio.size > STT_MAX_FILE_SIZE THEN "size"
    ELSE "ok"

SttForm(audio, language) ==
    [route |-> "stt", audio |-> audio, language |-> language]

\* the audio field of POST /api/stt
SttAudios ==
    {FormNull, FormFile("audio/wav", 1), FormFile("audio/wav", STT_MAX_FILE_SIZE + 1),
     FormFile("text/plain", 1)}

\* its language field ("": absent)
RouteLanguages == {"", "en", "constructor"}

\* Math.random() of the speechToText calls of the route, in percent
RouteRandoms == {0, 99}

\* POST /api/stt: the validation, speechToText with the base model, the
\* save of the record and the response.
PostStt(userParam, form, io) ==
    /\ apiResp = NoApiResp
    /\ isInitialized
    /\ \E random \in RouteRandoms, random2 \in RouteRandoms :
         LET userId == UserIdOf(userParam)
             validation == SttValidation(form)
             called == validation = "ok"
             result == IF called
                       THEN speechToText(form.language, random, random2)
                       ELSE NoSttResult
             record == [user_id |-> userId, type |-> "stt"]
             recordSaved == /\ result.success
                            /\ io # "record"
                            /\ AudioRecordAccepted(record)
             recordRowId == RowId(audio_records, audioRecordSeq)
         IN /\ models' = IF called THEN models \cup {ModelName("")} ELSE models
            /\ sttResult' = IF called THEN result ELSE sttResult
            /\ audio_records' = IF recordSaved
                                THEN Insert(audio_records, recordRowId, record)
                                ELSE audio_records
            /\ audioRecordSeq' = IF recordSaved THEN recordRowId
                                 ELSE audioRecordSeq
            /\ apiResp' = [NoApiResp EXCEPT
                             !.op = "stt",
                             !.status = RouteStatus(validation, result.success,
                                                    recordSaved),
                             !.user_id = userId,
                             !.external = IF called THEN "stt" ELSE "none",
                             !.body = form,
                             !.serviceOk = result.success,
                             !.payload =
                                 IF result.success
                                 THEN [kind |-> "transcript",
                                       text |-> result.text,
                                       language |-> result.language]
                                 ELSE NoPayload]
    /\ UNCHANGED <<users, foreignKeys, voice_models, voiceModelSeq, apiPending,
                   streamVars, clientVars, lifeVars, dbVars>>

\* the comparison skipped: the status is never written
StatusDiffersNever(reported, stored) == FALSE

\* statusResult.status !== model.status
StatusDiffers(reported, stored) == reported # stored

\* GET /api/clone?model_id=..: the status check, the snapshot of the user's
\* models and the comparison; the UPDATE, if any, is left pending.
GetModelStatus(userParam, modelId, reply) ==
    /\ apiResp = NoApiResp
    /\ LET userId == UserIdOf(userParam)
           status == checkModelStatus(reply)
           found == {i \in getVoiceModels(userId) :
                        voice_models[i].model_id = modelId}
       IN \/ /\ found = {}
             /\ apiResp' = [NoApiResp EXCEPT !.op = "status", !.status = 200,
                                             !.user_id = userId,
                                             !.reported = status]
             /\ UNCHANGED apiPending
          \/ \E i \in found :
                IF StatusDiffers(status, voice_models[i].status)
                THEN /\ apiPending' = apiPending \cup
                            {[op |-> "status", user_id |-> userId,
                              todo |-> {[id |-> i, status |-> status]},
                              checked |-> {[id |-> i, status |-> status]},
                              others |-> {}]}
                     /\ UNCHANGED apiResp
                ELSE /\ apiResp' = [NoApiResp EXCEPT !.op = "status",
                                       !.status = 200, !.user_id = userId,
                                       !.reported = status, !.model_info = i,
                                       !.checked = {[id |-> i, status |-> status]}]
                     /\ UNCHANGED apiPending
    /\ UNCHANGED <<users, foreignKeys, voice_models, audio_records,
                   voiceModelSeq, audioRecordSeq, streamVars, sttVars, clientVars, lifeVars, dbVars>>

\* GET /api/clone without model_id: the snapshot of the user's models and
\* one status check per model; the UPDATEs are left pending.
GetModels(userParam, replies) ==
    /\ apiResp = NoApiResp
    /\ LET userId == UserIdOf(userParam)
           snapshot == getVoiceModels(userId)
           checked == {[id |-> i, status |-> checkModelStatus(replies[i])] :
                          i \in snapshot}
           todo == {c \in checked :
                       StatusDiffers(c.status, voice_models[c.id].status)}
       IN /\ DOMAIN replies = snapshot
          /\ IF todo = {}
             THEN /\ apiResp' = [NoApiResp EXCEPT !.op = "list", !.status = 200,
                                                  !.user_id = userId,
                                                  !.checked = checked]
                  /\ UNCHANGED apiPending
             ELSE /\ apiPending' = apiPending \cup
                         {[op |-> "list", user_id |-> userId, todo |-> todo,
                           checked |-> checked, others |-> {}]}
                  /\ UNCHANGED apiResp
    /\ UNCHANGED <<users, foreignKeys, voice_models, audio_records,
                   voiceModelSeq, audioRecordSeq, streamVars, sttVars, clientVars, lifeVars, dbVars>>

\* the pending GETs other than request, with the row noted in others by
\* those that checked it
NoteChange(pending, request, id) ==
    {IF r.op # "delete" /\ id \in {c.id : c \in r.checked}
     THEN [r EXCEPT !.others = @ \cup {id}] ELSE r : r \in pending \ {request}}

\* One pending UPDATE of a GET runs; the GET answers after its last one.
\* (A rejected UPDATE is caught: by the route for the single model, per
\* model for the list.)
UpdateStatus(request, item) ==
    /\ apiResp = NoApiResp
    /\ request \in apiPending
    /\ request.op \in {"status", "list"}
    /\ item \in request.todo
    /\ voice_models' = updateVoiceModelStatus(voice_models, item.id, item.status)
    /\ LET rest == IF voice_models' # voice_models
                   THEN NoteChange(apiPending, request, item.id)
                   ELSE apiPending \ {request}
       IN IF request.todo = {item}
          THEN /\ apiPending' = rest
               /\ apiResp' = [NoApiResp EXCEPT
                                 !.op = request.op, !.status = 200,
                                 !.user_id = request.user_id,
                                 !.reported = IF request.op = "status"
                                              THEN item.status ELSE "",
                                 !.model_info = IF request.op = "status"
                                                THEN item.id ELSE 0,
                                 !.checked = request.checked,
                                 !.others = request.others]
          ELSE /\ apiPending' = rest \cup {[request EXCEPT !.todo = @ \ {item}]}
               /\ UNCHANGED apiResp
    /\ UNCHANGED <<users, foreignKeys, audio_records, voiceModelSeq,
                   audioRecordSeq, streamVars, sttVars, clientVars, lifeVars, dbVars>>

\* DELETE /api/clone up to the lookup.  idParam is parseInt(id || '0'): 0
\* for a missing, zero or non-numeric id; modelId "" is a missing model_id.
DeleteModel(userParam, idParam, modelId) ==
    /\ apiResp = NoApiResp
    /\ LET userId == UserIdOf(userParam)
           owned == getVoiceModels(userId)
           found == IF idParam # 0
                    THEN {i \in owned : i = idParam}
                    ELSE {i \in owned : voice_models[i].model_id = modelId}
       IN IF modelId = "" /\ idParam = 0
          THEN /\ apiResp' = [NoApiResp EXCEPT !.op = "delete", !.status = 400,
                                               !.user_id = userId]
               /\ UNCHANGED apiPending
          ELSE IF found = {}
          THEN /\ apiResp' = [NoApiResp EXCEPT !.op = "delete", !.status = 404,
                                               !.user_id = userId,
                                               !.idParam = idParam,
                                               !.modelId = modelId]
               /\ UNCHANGED apiPending
          ELSE /\ \E i \in found :
                     apiPending' = apiPending \cup
                         {[op |-> "delete", user_id |-> userId,
                           todo |-> {[id |-> i, status |-> ""]},
                           checked |-> {}, others |-> {}]}
               /\ UNCHANGED apiResp
    /\ UNCHANGED <<users, foreignKeys, voice_models, audio_records,
                   voiceModelSeq, audioRecordSeq, streamVars, sttVars, clientVars, lifeVars, dbVars>>

\* The pending deleteVoiceModel of a DELETE runs and the DELETE answers.
DeleteCompletes(request) ==
    /\ apiResp = NoApiResp
    /\ request \in apiPending
    /\ request.op = "delete"
    /\ \E item \in request.todo :
          /\ voice_models' = deleteVoiceModel(voice_models, item.id)
          /\ apiResp' = [NoApiResp EXCEPT !.op = "delete", !.status = 200,
                                          !.user_id = request.user_id,
                                          !.deleted = item.id]
    /\ apiPending' = apiPending \ {request}
    /\ UNCHANGED <<users, foreignKeys, audio_records, voiceModelSeq,
                   audioRecordSeq, streamVars, sttVars, clientVars, lifeVars, dbVars>>

\* The response reaches the client.
ApiDeliver ==
    /\ apiResp # NoApiResp
    /\ apiResp' = NoApiResp
    /\ UNCHANGED <<users, foreignKeys, voice_models, audio_records,
                   voiceModelSeq, audioRecordSeq, apiPending, streamVars, sttVars, clientVars, lifeVars, dbVars>>

(***************************************************************************)
(* SpeechToText.tsx: the streaming recorder of the browser client.         *)
(*                                                                         *)
(* The component is a function that React calls again on every state       *)
(* change; a callback reads the state of the call that created it.  The    *)
(* button runs the memoized startRecording and stopRecording, which are    *)
(* created again only when isStreamingMode or isRecording changes, and     *)
(* each of them reaches the other callbacks of the call that created it.   *)
(* A session id is the number of the recording whose PUT created it.       *)
(***************************************************************************)
Recordings == 1..MaxRecordings

\* useState<string | null>(null), and the null of a ref
NoSession == 0

NoRecording == 0

\* what stopRecording closes over when a render with isRecording = recording
\* and streamingSession = session follows one with the present isRecording
Memoized(recording, session) ==
    IF recording # isRecording
    THEN [isRecording |-> recording, streamingSession |-> session]
    ELSE stopRecording

\* The isProcessingAudio that processAudioQueue reads.  ondataavailable calls
\* the enqueueAudioChunk, and through it the processAudioQueue, of the render
\* that created startRecording: the state as useState(false) first gave it.
capturedIsProcessingAudio == FALSE

ClientInit ==
    /\ isRecording = FALSE
    /\ streamingSession = NoSession
    /\ isProcessingAudio = FALSE
    /\ stopRecording = [isRecording |-> FALSE, streamingSession |-> NoSession]
    /\ mediaRecorderRef = NoRecording
    /\ streamRef = NoRecording
    /\ chunkCounterRef = 0
    /\ audioQueueRef = <<>>
    /\ recordings = [k \in Recordings |-> "idle"]
    /\ loops = {}
    /\ blobs = 0
    /\ deletes = {}
    /\ serverSessions = {}
    /\ posted = <<>>
    /\ deleteSent = {}
    /\ notFound = {}

\* a loop of processAudioQueue that holds the chunk it shifted
Loop(chunk, phase) ==
    [blob |-> chunk.blob, sessionId |-> chunk.sessionId, phase |-> phase]

\* the tracks of a stream stop, or stop() is called: a recorder that records
\* delivers what it has left and becomes inactive
Stopped(phases, k) ==
    IF k # NoRecording /\ phases[k] = "recording"
    THEN [phases EXCEPT ![k] = "stopping"]
    ELSE phases

\* The button while isRecording is false: startStreamingRecording up to its
\* first await, the PUT.
ClickStart(k) ==
    /\ ~isRecording
    /\ recordings[k] = "idle"
    /\ \A j \in Recordings : j < k => recordings[j] # "idle"
    /\ chunkCounterRef' = 0
    /\ recordings' = [recordings EXCEPT ![k] = "put"]
    /\ UNCHANGED <<isRecording, streamingSession, isProcessingAudio,
                   stopRecording, mediaRecorderRef, streamRef, audioQueueRef,
                   loops, blobs, deletes, serverSessions, posted, deleteSent,
                   notFound, streamVars, sttVars, apiVars, lifeVars, dbVars>>

\* the catch of startStreamingRecording
StartFails(k) ==
    /\ recordings' = [Stopped(recordings, streamRef) EXCEPT ![k] = "failed"]
    /\ streamRef' = NoRecording
    /\ streamingSession' = NoSession
    /\ UNCHANGED <<isRecording, isProcessingAudio, stopRecording,
                   mediaRecorderRef, chunkCounterRef, audioQueueRef, loops,
                   blobs, deletes, posted, deleteSent, notFound, streamVars,
                   sttVars, apiVars, lifeVars, dbVars>>

\* The PUT is answered with a new session: startStreamingRecording up to
\* its await of getUserMedia.
PutAnswered(k) ==
    /\ recordings[k] = "put"
    /\ serverSessions' = serverSessions \cup {k}
    /\ streamingSession' = k
    /\ recordings' = [recordings EXCEPT ![k] = "mic"]
    /\ UNCHANGED <<isRecording, isProcessingAudio, stopRecording,
                   mediaRecorderRef, streamRef, chunkCounterRef, audioQueueRef,
                   loops, blobs, deletes, posted, deleteSent, notFound,
                   streamVars, sttVars, apiVars, lifeVars, dbVars>>

\* the PUT is answered with an error: no session was created
PutRejected(k) ==
    /\ recordings[k] = "put"
    /\ StartFails(k)
    /\ UNCHANGED serverSessions

\* getUserMedia resolves: the rest of startStreamingRecording
MicGranted(k) ==
    /\ recordings[k] = "mic"
    /\ streamRef' = k
    /\ mediaRecorderRef' = k
    /\ recordings' = [recordings EXCEPT ![k] = "recording"]
    /\ isRecording' = TRUE
    /\ stopRecording' = Memoized(TRUE, streamingSession)
    /\ UNCHANGED <<streamingSession, isProcessingAudio, chunkCounterRef,
                   audioQueueRef, loops, blobs, deletes, serverSessions,
                   posted, deleteSent, notFound, streamVars, sttVars, apiVars, lifeVars, dbVars>>

\* getUserMedia rejects: the session of the PUT stays on the server
MicDenied(k) ==
    /\ recordings[k] = "mic"
    /\ StartFails(k)
    /\ UNCHANGED serverSessions

\* enqueueAudioChunk, and the processAudioQueue it calls up to the first
\* await of the loop
enqueueAudioChunk(blob, sessionId) ==
    LET queue == Append(audioQueueRef, [blob |-> blob, sessionId |-> sessionId])
    IN  IF capturedIsProcessingAudio \/ queue = <<>>
        THEN /\ audioQueueRef' = queue
             /\ UNCHANGED <<isProcessingAudio, loops>>
        ELSE /\ isProcessingAudio' = TRUE
             /\ audioQueueRef' = Tail(queue)
             /\ loops' = loops \cup {Loop(Head(queue), "encoding")}

\* ondataavailable of the recorder of recording k, every 500 ms
DataAvailable(k) ==
    /\ recordings[k] = "recording"
    /\ blobs' = blobs + 1
    /\ enqueueAudioChunk(blobs', k)
    /\ UNCHANGED <<isRecording, streamingSession, stopRecording,
                   mediaRecorderRef, streamRef, chunkCounterRef, recordings,
                   deletes, serverSessions, posted, deleteSent, notFound,
                   streamVars, sttVars, apiVars, lifeVars, dbVars>>

\* the last ondataavailable of a stopped recorder, with data
LastDataAvailable(k) ==
    /\ recordings[k] = "stopping"
    /\ blobs' = blobs + 1
    /\ enqueueAudioChunk(blobs', k)
    /\ recordings' = [recordings EXCEPT ![k] = "inactive"]
    /\ UNCHANGED <<isRecording, streamingSession, stopRecording,
                   mediaRecorderRef, streamRef, chunkCounterRef, deletes,
                   serverSessions, posted, deleteSent, notFound, streamVars,
                   sttVars, apiVars, lifeVars, dbVars>>

\* the last ondataavailable of a stopped recorder, with an empty blob
LastDataEmpty(k) ==
    /\ recordings[k] = "stopping"
    /\ recordings' = [recordings EXCEPT ![k] = "inactive"]
    /\ UNCHANGED <<isRecording, streamingSession, isProcessingAudio,
                   stopRecording, mediaRecorderRef, streamRef, chunkCounterRef,
                   audioQueueRef, loops, blobs, deletes, serverSessions,
                   posted, deleteSent, notFound, streamVars, sttVars, apiVars, lifeVars, dbVars>>

\* processAudioChunk from the end of its encoding to the await of the POST
Encoded(loop) ==
    /\ loop \in loops
    /\ loop.phase = "encoding"
    /\ chunkCounterRef' = chunkCounterRef + 1
    /\ posted' = Append(posted, [sessionId |-> loop.sessionId,
                                 blob |-> loop.blob,
                                 isFirstChunk |-> (chunkCounterRef' = 1),
                                 isFinalChunk |-> FALSE])
    /\ loops' = (loops \ {loop}) \cup {Loop(loop, "posting")}
    /\ UNCHANGED <<isRecording, streamingSession, isProcessingAudio,
                   stopRecording, mediaRecorderRef, streamRef, audioQueueRef,
                   recordings, blobs, deletes, serverSessions, deleteSent,
                   notFound, streamVars, sttVars, apiVars, lifeVars, dbVars>>

\* the POST reaches the server and is answered; the loop awaits its 100 ms
PostAnswered(loop) ==
    /\ loop \in loops
    /\ loop.phase = "posting"
    /\ notFound' = IF loop.sessionId \in serverSessions
                   THEN notFound
                   ELSE notFound \cup {loop.blob}
    /\ loops' = (loops \ {loop}) \cup {Loop(loop, "delay")}
    /\ UNCHANGED <<isRecording, streamingSession, isProcessingAudio,
                   stopRecording, mediaRecorderRef, streamRef, chunkCounterRef,
                   audioQueueRef, recordings, blobs, deletes, serverSessions,
                   posted, deleteSent, streamVars, sttVars, apiVars, lifeVars, dbVars>>

\* the 100 ms are over: the loop shifts the next chunk or ends
LoopContinues(loop) ==
    /\ loop \in loops
    /\ loop.phase = "delay"
    /\ IF audioQueueRef # <<>>
       THEN /\ loops' = (loops \ {loop}) \cup {Loop(Head(audioQueueRef), "encoding")}
            /\ audioQueueRef' = Tail(audioQueueRef)
            /\ UNCHANGED isProcessingAudio
       ELSE /\ loops' = loops \ {loop}
            /\ isProcessingAudio' = FALSE
            /\ UNCHANGED audioQueueRef
    /\ UNCHANGED <<isRecording, streamingSession, stopRecording,
                   mediaRecorderRef, streamRef, chunkCounterRef, recordings,
                   blobs, deletes, serverSessions, posted, deleteSent,
                   notFound, streamVars, sttVars, apiVars, lifeVars, dbVars>>

\* every chunk that is pushed is shifted by the loop its push starts
QueueIsEmpty == audioQueueRef = <<>>

\* The button while isRecording is true: stopStreamingRecording up to the
\* await of its DELETE.  The queue is empty whenever a handler starts
\* (QueueIsEmpty), so the loop that waits for it does not wait.  stop() on
\* a recorder that is inactive throws in some browsers and returns in others.
ClickStop(throws) ==
    /\ isRecording
    /\ LET stops == mediaRecorderRef # NoRecording /\ stopRecording.isRecording
           session == stopRecording.streamingSession
       IN  IF stops /\ recordings[mediaRecorderRef] # "recording" /\ throws
           THEN UNCHANGED <<clientVars, streamVars, sttVars, apiVars, lifeVars, dbVars>>
           ELSE /\ isRecording' = (isRecording /\ ~stops)
                /\ stopRecording' = Memoized(isRecording', streamingSession)
                /\ recordings' =
                      Stopped(IF stops
                              THEN Stopped(recordings, mediaRecorderRef)
                              ELSE recordings, streamRef)
                /\ streamRef' = NoRecording
                /\ IF session # NoSession
                   THEN /\ deletes' = deletes \cup {session}
                        /\ deleteSent' = deleteSent \cup {session}
                        /\ UNCHANGED audioQueueRef
                   ELSE /\ audioQueueRef' = <<>>
                        /\ UNCHANGED <<deletes, deleteSent>>
                /\ UNCHANGED <<streamingSession, isProcessingAudio,
                               mediaRecorderRef, chunkCounterRef, loops, blobs,
                               serverSessions, posted, notFound, streamVars,
                               sttVars, apiVars, lifeVars, dbVars>>

\* the DELETE reaches the server and is answered: the rest of
\* stopStreamingRecording
DeleteAnswered(sessionId) ==
    /\ sessionId \in deletes
    /\ deletes' = deletes \ {sessionId}
    /\ serverSessions' = serverSessions \ {sessionId}
    /\ streamingSession' = NoSession
    /\ audioQueueRef' = <<>>
    /\ UNCHANGED <<isRecording, isProcessingAudio, stopRecording,
                   mediaRecorderRef, streamRef, chunkCounterRef, recordings,
                   loops, blobs, posted, deleteSent, notFound, streamVars,
                   sttVars, apiVars, lifeVars, dbVars>>

(***************************************************************************)
(* WhisperService: waitForReady, loadModel and cleanup.                    *)
(*                                                                         *)
(* The constructor runs initialize() to its end, so the singleton is       *)
(* initialised from its construction on; only cleanup() changes that.  A   *)
(* call on the initialised service passes waitForReady without a wait and  *)
(* is the action of its method above.                                      *)
(***************************************************************************)
\* const maxAttempts = 30
maxAttempts == 30

\* the methods that begin with await this.waitForReady() and answer a throw
\* with success: false (loadModel: with false)
WaitingMethods ==
    {"speechToText", "loadModel", "initStreamingSession", "streamingSpeechToText"}

\* what the catch of a method returns
Failure(method) == IF method = "loadModel" THEN "false" ELSE "success: false"

LifeInit ==
    /\ cleaned = FALSE
    /\ callSeq = 0
    /\ waiting = {}
    /\ thrown = {}
    /\ loading = {}

\* cleanup() that leaves the service initialised
InitializedAfterCleanupKept == TRUE

\* this.isInitialized = false
InitializedAfterCleanup == FALSE

\* WhisperService.cleanup
cleanup ==
    /\ models' = {}
    /\ isInitialized' = InitializedAfterCleanup
    /\ cleaned' = TRUE
    /\ UNCHANGED <<streamingSessions, heap, nextObj, inflight, timers, resp,
                   accepted, sttResult, callSeq, waiting, thrown, loading,
                   apiVars, clientVars, dbVars>>

\* loadModel on the initialised service, for a model that is not loaded: up
\* to its await of 2 s
LoadModelStarts(modelName) ==
    /\ isInitialized
    /\ modelName \notin models
    /\ loading' = loading \cup {modelName}
    /\ UNCHANGED <<cleaned, callSeq, waiting, thrown, streamVars, sttVars,
                   apiVars, clientVars, dbVars>>

\* the 2 s are over: this.models.set(modelName, model)
LoadModelCompletes(modelName) ==
    /\ modelName \in loading
    /\ loading' = loading \ {modelName}
    /\ models' = models \cup {modelName}
    /\ UNCHANGED <<cleaned, callSeq, waiting, thrown, sttResult, streamVars,
                   apiVars, clientVars, dbVars>>

\* the loop of waitForReady without its bound
KeepsWaitingUnbounded(attempts) == ~isInitialized

\* while (!this.isInitialized && attempts < maxAttempts)
KeepsWaiting(attempts) == ~isInitialized /\ attempts < maxAttempts

\* A call of a method on a service that is not initialised: waitForReady up
\* to its first await of 1000 ms.
WaitForReady(method) ==
    /\ KeepsWaiting(0)
    /\ callSeq' = callSeq + 1
    /\ waiting' = waiting \cup {[id |-> callSeq', method |-> method, attempts |-> 0]}
    /\ UNCHANGED <<cleaned, thrown, loading, streamVars, sttVars, apiVars,
                   clientVars, dbVars>>

\* The 1000 ms of a suspended waitForReady are over: it waits again, or it
\* throws and the catch of its method returns the failure, or (the service
\* being initialised, which nothing brings about) it returns.
Poll(call) ==
    /\ call \in waiting
    /\ LET attempts == call.attempts + 1
       IN  IF KeepsWaiting(attempts)
           THEN /\ waiting' = (waiting \ {call}) \cup
                                 {[call EXCEPT !.attempts = attempts]}
                /\ UNCHANGED thrown
           ELSE /\ waiting' = waiting \ {call}
                /\ thrown' = IF ~isInitialized
                             THEN thrown \cup
                                    {[id |-> call.id, method |-> call.method,
                                      attempts |-> attempts,
                                      result |-> Failure(call.method)]}
                             ELSE thrown
    /\ UNCHANGED <<cleaned, callSeq, loading, streamVars, sttVars, apiVars,
                   clientVars, dbVars>>

(***************************************************************************)
(* Database: the constructor, initialize and waitForReady.                 *)
(*                                                                         *)
(* The constructor calls initialize(), which issues the first CREATE TABLE *)
(* and suspends; this.ready is its promise.  Every operation begins with   *)
(* await this.waitForReady(), outside its try.                             *)
(***************************************************************************)
CreateStatements ==
    <<"CREATE TABLE users", "CREATE TABLE audio_records",
      "CREATE TABLE voice_models">>

\* the operations and the statement each issues first
Operations ==
    {"createVoiceModel", "getVoiceModels", "updateVoiceModelStatus",
     "deleteVoiceModel", "close"}

FirstStatement(operation) ==
    CASE operation = "createVoiceModel" -> "INSERT INTO voice_models"
      [] operation = "getVoiceModels" -> "SELECT FROM voice_models"
      [] operation = "updateVoiceModelStatus" -> "UPDATE voice_models"
      [] operation = "deleteVoiceModel" -> "DELETE FROM voice_models"
      [] operation = "close" -> "close"

\* the instance right after new Database()
DbConstructed ==
    /\ initState = "running"
    /\ initStep = 0
    /\ dbLog = <<CreateStatements[1]>>
    /\ dbWaiting = {}
    /\ dbRejected = {}
    /\ dbCalls = 0

\* the instance after initialize() has returned
DbReady ==
    /\ initState = "resolved"
    /\ initStep = Len(CreateStatements)
    /\ dbLog = CreateStatements
    /\ dbWaiting = {}
    /\ dbRejected = {}
    /\ dbCalls = 0

\* a CREATE TABLE completes: initialize issues the next one, or returns
CreateCompletes ==
    /\ initState = "running"
    /\ initStep' = initStep + 1
    /\ IF initStep' < Len(CreateStatements)
       THEN /\ dbLog' = Append(dbLog, CreateStatements[initStep' + 1])
            /\ UNCHANGED initState
       ELSE /\ initState' = "resolved"
            /\ UNCHANGED dbLog
    /\ UNCHANGED <<dbWaiting, dbRejected, dbCalls, streamVars, sttVars,
                   apiVars, clientVars, lifeVars>>

\* a CREATE TABLE fails: the catch of initialize throws again
CreateFails ==
    /\ initState = "running"
    /\ initState' = "rejected"
    /\ UNCHANGED <<initStep, dbLog, dbWaiting, dbRejected, dbCalls,
                   streamVars, sttVars, apiVars, clientVars, lifeVars>>

\* an operation that issues its statement without awaiting this.ready
MayProceedAtOnce(state) == TRUE

\* await this.ready: the operation goes on once the promise is settled
MayProceed(state) == state # "running"

\* an operation is called: up to its await this.waitForReady()
OperationCalled(operation) ==
    /\ operation \notin dbWaiting
    /\ dbCalls' = dbCalls + 1
    /\ dbWaiting' = dbWaiting \cup {operation}
    /\ UNCHANGED <<initState, initStep, dbLog, dbRejected, streamVars,
                   sttVars, apiVars, clientVars, lifeVars>>

\* this.ready is settled: the operation rejects with the error of
\* initialize, or issues its first statement
OperationResumes(operation) ==
    /\ operation \in dbWaiting
    /\ MayProceed(initState)
    /\ dbWaiting' = dbWaiting \ {operation}
    /\ IF initState = "rejected"
       THEN /\ dbRejected' = dbRejected \cup {operation}
            /\ UNCHANGED dbLog
       ELSE /\ dbLog' = Append(dbLog, FirstStatement(operation))
            /\ UNCHANGED dbRejected
    /\ UNCHANGED <<initState, initStep, dbCalls, streamVars, sttVars,
                   apiVars, clientVars, lifeVars>>

(***************************************************************************)
(* The specifications.                                                     *)
(***************************************************************************)
\* the bounds on one more session object and on one more stored chunk
MayInit(maxSessions) == nextObj < maxSessions

MayStore(sessionId, maxChunks, maxInflight) ==
    /\ Len(inflight) < maxInflight
    /\ HasSession(streamingSessions, sessionId)
         => Len(heap[streamingSessions[sessionId]].audioBuffer) < maxChunks

Next ==
    \/ \E s \in SessionIds, l \in InitLanguages, m \in InitModels :
          MayInit(MaxSessions) /\ PutSession(s, l, m)
    \/ \E s \in SessionIds \cup {""}, c \in AudioChunks : PostInvalid(s, c)
    \/ \E s \in SessionIds, c \in AudioChunks : PostNotFound(s, c)
    \/ \E s \in SessionIds, c \in AudioChunks, f \in BOOLEAN, g \in BOOLEAN,
          l \in ChunkLanguages :
          MayStore(s, MaxChunks, MaxInflight) /\ PostAccepted(s, c, f, g, l)
    \/ ResumeThrows
    \/ ResumeReturns
    \/ FinalTimerFires
    \/ DeleteInvalid
    \/ \E s \in SessionIds : DeleteSession(s)
    \/ \E d \in TickSteps : Tick(d)
    \/ Deliver

Init == StreamInit /\ SttInit /\ ApiQuiet /\ ClientInit /\ LifeInit /\ DbReady

Spec == Init /\ [][Next]_vars

\* Suspended calls resume, timers fire, responses are delivered and time
\* passes; no request is ever forced to arrive.
Fairness ==
    /\ WF_vars(ResumeThrows)
    /\ WF_vars(ResumeReturns)
    /\ WF_vars(FinalTimerFires)
    /\ WF_vars(Deliver)
    /\ WF_vars(\E d \in TickSteps : Tick(d))

FairSpec == Init /\ [][Next]_vars /\ Fairness

NextCursor ==
    \/ \E s \in CursorSessionIds, l \in CursorLanguages, m \in InitModels :
          MayInit(MaxCursorSessions) /\ PutSession(s, l, m)
    \/ \E s \in CursorSessionIds, c \in AudioChunks : PostNotFound(s, c)
    \/ \E s \in CursorSessionIds, c \in AudioChunks, f \in BOOLEAN, g \in BOOLEAN :
          MayStore(s, MaxCursorChunks, MaxCursorInflight) /\ PostAccepted(s, c, f, g, "")
    \/ ResumeThrows
    \/ ResumeReturns
    \/ FinalTimerFires
    \/ \E s \in CursorSessionIds : DeleteSession(s)
    \/ Deliver

CursorSpec == Init /\ [][NextCursor]_vars

NextStt ==
    \E l \in SttLanguages, m \in ModelNames : SpeechToText(l, m)

SttSpec == Init /\ [][NextStt]_vars

PendingGets == Cardinality({r \in apiPending : r.op # "delete"})

PendingDeletes == Cardinality({r \in apiPending : r.op = "delete"})

NextApi ==
    \/ \E u \in UserParams, n \in CloneNames, ok \in BOOLEAN,
          h \in Handles \cup {Undefined}, st \in ReportedStatuses \cup {Undefined} :
          /\ voiceModelSeq < MaxVoiceModels
          /\ audioRecordSeq < MaxAudioRecords
          /\ PostClone(u, PlainCloneForm(n), cloneVoice(ok, h, st), "ok")
    \/ \E u \in UserParams, ok \in BOOLEAN :
          audioRecordSeq < MaxAudioRecords /\ PostTts(u, PlainTtsBody, ok, "ok")
    \/ \E u \in UserParams, m \in Handles, r \in StatusReplies :
          PendingGets < MaxPendingGets /\ GetModelStatus(u, m, r)
    \/ \E u \in UserParams :
          \E replies \in [getVoiceModels(UserIdOf(u)) -> StatusReplies] :
              PendingGets < MaxPendingGets /\ GetModels(u, replies)
    \/ \E request \in apiPending : \E item \in request.todo :
          UpdateStatus(request, item)
    \/ \E u \in UserParams, i \in IdParams, m \in Handles \cup {""} :
          PendingDeletes < MaxPendingDeletes /\ DeleteModel(u, i, m)
    \/ \E request \in apiPending : DeleteCompletes(request)
    \/ ApiDeliver

\* /api/clone with status checks that overlap each other, a DELETE and
\* successful clones.
NextCheck ==
    \/ \E u \in UserParams, n \in CloneNames, h \in Handles :
          /\ voiceModelSeq < MaxCheckedModels
          /\ PostClone(u, PlainCloneForm(n), cloneVoice(TRUE, h, Undefined), "ok")
    \/ \E u \in UserParams, m \in Handles, r \in CheckReplies :
          PendingGets < MaxOverlappingGets /\ GetModelStatus(u, m, r)
    \/ \E u \in UserParams :
          \E replies \in [getVoiceModels(UserIdOf(u)) -> CheckReplies] :
              PendingGets < MaxOverlappingGets /\ GetModels(u, replies)
    \/ \E request \in apiPending : \E item \in request.todo :
          UpdateStatus(request, item)
    \/ \E u \in UserParams, i \in 1..MaxCheckedModels :
          PendingDeletes < MaxPendingDeletes /\ DeleteModel(u, i, "")
    \/ \E request \in apiPending : DeleteCompletes(request)
    \/ ApiDeliver

\* the statuses the cloning service answers a clone with in RouteSpec
RouteStatuses == {"training", "queued"}

\* the user_id parameter of the POST routes (0: absent) and the handle the
\* cloning service answers with in RouteSpec
RouteUsers == {0}
RouteHandles == {"m1"}

\* The POST routes with their input validation.
NextRoute ==
    \/ \E u \in RouteUsers, text \in TtsTexts, speed \in TtsSpeeds,
          ok \in BOOLEAN, io \in DbOutcomes \ {"model"} :
          /\ audioRecordSeq < MaxRouteRecords
          /\ PostTts(u, TtsBody(text, speed), ok, io)
    \/ \E u \in RouteUsers, audio \in CloneAudios, name \in CloneNameFields,
          ok \in BOOLEAN, h \in RouteHandles, st \in RouteStatuses,
          io \in DbOutcomes :
          /\ audioRecordSeq < MaxRouteRecords
          /\ voiceModelSeq < MaxRouteRecords
          /\ PostClone(u, CloneForm(audio, name), cloneVoice(ok, h, st), io)
    \/ \E u \in RouteUsers, audio \in SttAudios, l \in RouteLanguages,
          io \in DbOutcomes \ {"model"} :
          /\ audioRecordSeq < MaxRouteRecords
          /\ PostStt(u, SttForm(audio, l), io)
    \/ ApiDeliver

\* the database as initialize() may leave it, nothing else in progress
InitApi == StreamInit /\ SttInit /\ ApiInit /\ ClientInit /\ LifeInit /\ DbReady

ApiSpec == InitApi /\ [][NextApi]_vars

RouteSpec == InitApi /\ [][NextRoute]_vars

CheckSpec == Init /\ [][NextCheck]_vars

NextClient ==
    \/ \E k \in Recordings : ClickStart(k)
    \/ \E k \in Recordings : PutAnswered(k)
    \/ \E k \in Recordings : PutRejected(k)
    \/ \E k \in Recordings : MicGranted(k)
    \/ \E k \in Recordings : MicDenied(k)
    \/ \E k \in Recordings : blobs < MaxBlobs /\ DataAvailable(k)
    \/ \E k \in Recordings : blobs < MaxBlobs /\ LastDataAvailable(k)
    \/ \E k \in Recordings : LastDataEmpty(k)
    \/ \E loop \in loops : Encoded(loop)
    \/ \E loop \in loops : PostAnswered(loop)
    \/ \E loop \in loops : LoopContinues(loop)
    \/ \E throws \in BOOLEAN : ClickStop(throws)
    \/ \E s \in Recordings : DeleteAnswered(s)

ClientSpec == Init /\ [][NextClient]_vars

\* Requests are answered, the permission prompt is answered, a stopped
\* recorder delivers its last event, the loops go on, and a recording that
\* runs is stopped by its user; nobody is ever forced to start one.
ClientFairness ==
    /\ WF_vars(\E k \in Recordings : PutAnswered(k) \/ PutRejected(k))
    /\ WF_vars(\E k \in Recordings : MicGranted(k) \/ MicDenied(k))
    /\ WF_vars(\E k \in Recordings :
                  (blobs < MaxBlobs /\ LastDataAvailable(k)) \/ LastDataEmpty(k))
    /\ WF_vars(\E loop \in loops : Encoded(loop))
    /\ WF_vars(\E loop \in loops : PostAnswered(loop))
    /\ WF_vars(\E loop \in loops : LoopContinues(loop))
    /\ WF_vars(\E throws \in BOOLEAN : ClickStop(throws))
    /\ WF_vars(\E s \in Recordings : DeleteAnswered(s))

ClientFairSpec == Init /\ [][NextClient]_vars /\ ClientFairness

NextLife ==
    \/ \E s \in LifeSessionIds, l \in LifeLanguages, m \in InitModels :
          MayInit(MaxLifeSessions) /\ PutSession(s, l, m)
    \/ \E s \in LifeSessionIds, g \in BOOLEAN :
          MayStore(s, MaxLifeChunks, MaxLifeInflight)
            /\ PostAccepted(s, "QQ==", FALSE, g, "")
    \/ ResumeReturns
    \/ FinalTimerFires
    \/ Deliver
    \/ \E l \in LifeLanguages, m \in ModelNames : SpeechToText(l, m)
    \/ \E m \in ModelNames : LoadModelStarts(ModelName(m))
    \/ \E m \in ModelNames : LoadModelCompletes(ModelName(m))
    \/ cleanup
    \/ \E method \in WaitingMethods : callSeq < MaxCalls /\ WaitForReady(method)
    \/ \E call \in waiting : Poll(call)

LifeSpec == Init /\ [][NextLife]_vars

\* the timer of every suspended waitForReady fires
LifeFairness ==
    \A id \in 1..MaxCalls :
        WF_vars(\E call \in waiting : call.id = id /\ Poll(call))

LifeFairSpec == Init /\ [][NextLife]_vars /\ LifeFairness

NextDb ==
    \/ CreateCompletes
    \/ CreateFails
    \/ \E operation \in Operations :
          dbCalls < MaxDbCalls /\ OperationCalled(operation)
    \/ \E operation \in Operations : OperationResumes(operation)

InitDb ==
    StreamInit /\ SttInit /\ ApiQuiet /\ ClientInit /\ LifeInit /\ DbConstructed

DbSpec == InitDb /\ [][NextDb]_vars

(***************************************************************************)
(* C1.  The idle sweep.                                                    *)
(***************************************************************************)
\* session id s is a key of the map and its session has been idle for more
\* than 30 minutes
IdleTooLong(s) ==
    /\ HasSession(streamingSessions, s)
    /\ heap[streamingSessions[s]].idle > 30 * 60 * 1000

\* C1, as stated: every streaming session that stays idle (no chunk accepted
\* for it) for more than 30 minutes is eventually removed from the session
\* map.
C1_EventuallyRemoved ==
    \A s \in SessionIds :
        IdleTooLong(s) ~> (~HasSession(streamingSessions, s) \/ ~IdleTooLong(s))

\* C1, amended: a session idle for more than 30 minutes when a later
\* initStreamingSession succeeds is removed from the map by that call (the
\* id stays only if it is the id being initialised, with the new session).
C1_RemovedByNextInit ==
    [][nextObj' # nextObj =>
         \A s \in SessionIds :
             IdleTooLong(s) =>
                 \/ ~HasSession(streamingSessions', s)
                 \/ streamingSessions'[s] = nextObj']_vars

\* an init has swept a session, and another id was initialised
C1_Witness ==
    /\ resp.op = "init"
    /\ resp.expiredLog # {}
    /\ resp.sessionId \notin resp.expiredLog

(***************************************************************************)
(* Steps of a streamingSpeechToText call, as the claims speak of them.     *)
(***************************************************************************)
\* a chunk is accepted: the lookup found the session and the chunk is stored
ChunkAccepted == Len(inflight') = Len(inflight) + 1

\* the call of an accepted chunk returns
CallReturns == Len(inflight') + 1 = Len(inflight)

\* a streamingSpeechToText call returns without having suspended
CallRefused ==
    /\ resp = NoResp
    /\ resp'.op = "chunk"
    /\ resp'.status # 400
    /\ inflight' = inflight

(***************************************************************************)
(* C2.  Success exactly for the keys of the map.                           *)
(***************************************************************************)
\* C2, as stated: a streamingSpeechToText call succeeds exactly when its
\* sessionId is a key of the session map; otherwise it returns success
\* false with 'Session not found', changes no session and creates none, and
\* the route answers 500.
C2_SucceedsIffSessionExists ==
    [][/\ CallReturns => resp'.success /\ resp'.status = 200
       /\ CallRefused =>
            /\ ~HasSession(streamingSessions, resp'.sessionId)
            /\ ~resp'.success
            /\ resp'.error = "Session not found"
            /\ resp'.status = 500
            /\ UNCHANGED <<streamingSessions, heap>>]_vars

(***************************************************************************)
(* C3.  One chunk, one buffer entry; totalChunks counts them.              *)
(***************************************************************************)
IsAppendOfOne(new, old) ==
    /\ Len(new) = Len(old) + 1
    /\ SubSeq(new, 1, Len(old)) = old

\* C3: an accepted chunk appends exactly one entry to the audio buffer of
\* the session named in the request and leaves every other buffer as it was;
\* no other step changes a buffer; the totalChunks cleanupStreamingSession
\* reports for an id is the number of chunks accepted for that id since its
\* most recent initStreamingSession.
C3_OneEntryPerChunk ==
    [][/\ ChunkAccepted =>
            LET call == inflight'[Len(inflight')]
            IN /\ HasSession(streamingSessions, call.sessionId)
               /\ call.obj = streamingSessions[call.sessionId]
               /\ IsAppendOfOne(heap'[call.obj].audioBuffer,
                                heap[call.obj].audioBuffer)
               /\ \A o \in DOMAIN heap \ {call.obj} :
                      /\ o \in DOMAIN heap'
                      /\ heap'[o].audioBuffer = heap[o].audioBuffer
       /\ ~ChunkAccepted =>
            \A o \in DOMAIN heap \cap DOMAIN heap' :
                heap'[o].audioBuffer = heap[o].audioBuffer
       /\ (resp = NoResp /\ resp'.op = "cleanup" /\ resp'.status = 200) =>
            /\ resp'.finalResult.present
                 <=> HasSession(streamingSessions, resp'.sessionId)
            /\ resp'.finalResult.present =>
                 resp'.finalResult.totalChunks = accepted[resp'.sessionId]]_vars

\* a cleanup reports two chunks while another session holds one
C3_Witness ==
    /\ resp.op = "cleanup"
    /\ resp.finalResult.present
    /\ resp.finalResult.totalChunks = 2
    /\ \E s \in DOMAIN streamingSessions :
           Len(heap[streamingSessions[s]].audioBuffer) = 1

(***************************************************************************)
(* C4.  The cursor of the middle chunks.                                   *)
(***************************************************************************)
\* the response to a middle chunk of a session holding n chunks is the entry
\* min(n-1, L-1) (zero-based) of the partial list
MiddleChunkText(session, response) ==
    LET partial == getLanguageSampleTexts(ResponseLanguage(session.language)).partial
        n == Len(session.audioBuffer)
        L == Len(partial)
    IN /\ response.success
       /\ L > 0
       /\ response.partialText = partial[Min(n - 1, L - 1) + 1]

IsMiddle(call) == ~call.isFirstChunk /\ ~call.isFinalChunk

\* C4, as stated: for an accepted chunk that is neither first nor final the
\* partial text returned is the entry of the session language's partial
\* list at index min(n-1, L-1), n the number of chunks stored in the session
\* and L the length of the list.
C4_MiddleChunkCursor ==
    [][(CallReturns /\ IsMiddle(Head(inflight))) =>
          MiddleChunkText(heap[Head(inflight).obj], resp')]_vars

\* C4 restricted to the sessions whose language resolves to a table.
C4_CursorWhereListsExist ==
    [][(CallReturns /\ IsMiddle(Head(inflight))
          /\ getLanguageSampleTexts(
                ResponseLanguage(heap[Head(inflight).obj].language)).hasLists) =>
          MiddleChunkText(heap[Head(inflight).obj], resp')]_vars

(***************************************************************************)
(* C5.  The final chunk.                                                   *)
(***************************************************************************)
\* C5, as stated, for the sessions whose language resolves to a table: when
\* a chunk flagged isFinalChunk is accepted, the response is final (isFinal
\* true, isPartial false, text non-empty, equal to partialText and taken
\* from the final list) and the deletion of the session is scheduled.
C5_FinalChunkIsFinal ==
    [][(CallReturns /\ Head(inflight).isFinalChunk
          /\ getLanguageSampleTexts(
                ResponseLanguage(heap[Head(inflight).obj].language)).hasLists) =>
          LET final == getLanguageSampleTexts(
                           ResponseLanguage(heap[Head(inflight).obj].language)).final
          IN /\ resp'.success
             /\ resp'.isFinal
             /\ ~resp'.isPartial
             /\ resp'.text # ""
             /\ resp'.text = resp'.partialText
             /\ resp'.text \in Range(final)
             /\ Len(timers') = Len(timers) + 1
             /\ timers'[Len(timers')].sessionId = Head(inflight).sessionId]_vars

(***************************************************************************)
(* C6.  The persisted status.                                              *)
(***************************************************************************)
\* C6: after any sequence of POST, GET and DELETE requests on /api/clone,
\* whatever status string the cloning service reports ('unknown' and
\* 'error' of the client included), the status of every row of
\* voice_models is 'training', 'ready' or 'failed'.
C6_PersistedStatus ==
    \A i \in DOMAIN voice_models :
        voice_models[i].status \in {"training", "ready", "failed"}

\* a status check that reported 'unknown' for a row of the table has run
\* its UPDATE
C6_Witness ==
    /\ apiResp.op = "status"
    /\ apiResp.reported = "unknown"
    /\ apiResp.model_info \in DOMAIN voice_models

(***************************************************************************)
(* C7.  Rows come from successful clones.                                  *)
(***************************************************************************)
\* C7: a row of voice_models appears only in a POST /api/clone whose
\* cloneVoice call returned success, with the model_id that call returned,
\* and keeps its model_id; a POST whose cloneVoice call failed adds no row
\* to voice_models or audio_records and answers 500.
C7_RowsFromSuccessfulClones ==
    [][/\ \A i \in DOMAIN voice_models' \ DOMAIN voice_models :
              /\ apiResp'.op = "clone"
              /\ apiResp'.cloneResult.success
              /\ voice_models'[i].model_id = apiResp'.cloneResult.model_id
       /\ \A i \in DOMAIN voice_models' \cap DOMAIN voice_models :
              voice_models'[i].model_id = voice_models[i].model_id
       /\ (apiResp = NoApiResp /\ apiResp'.op = "clone"
             /\ ~apiResp'.cloneResult.success) =>
              /\ apiResp'.status = 500
              /\ UNCHANGED <<voice_models, audio_records>>]_vars

\* a successful clone has stored its row beside a row of another handle
C7_Witness ==
    /\ apiResp.op = "clone"
    /\ apiResp.cloneResult.success
    /\ voiceModelSeq \in DOMAIN voice_models
    /\ voice_models[voiceModelSeq].model_id = apiResp.cloneResult.model_id
    /\ \E i \in DOMAIN voice_models :
           voice_models[i].model_id # apiResp.cloneResult.model_id

(***************************************************************************)
(* C8.  The user of a row.                                                 *)
(***************************************************************************)
\* C8, as stated: every row of audio_records and of voice_models has a
\* user_id that is the id of a row of users.
C8_UserIdsExist ==
    /\ \A i \in DOMAIN audio_records : audio_records[i].user_id \in users
    /\ \A i \in DOMAIN voice_models : voice_models[i].user_id \in users

(***************************************************************************)
(* C9.  DELETE /api/clone.                                                 *)
(***************************************************************************)
\* a row of user u matches the request: the id when one is given (the
\* route reads it with parseInt(id || '0'), so 0 is no id), the model_id
\* otherwise
MatchesDelete(i, u, idParam, modelId) ==
    /\ voice_models[i].user_id = u
    /\ IF idParam # 0 THEN i = idParam ELSE voice_models[i].model_id = modelId

\* C9: a DELETE /api/clone of user u removes at most one row, and only a
\* row of u, and no other request removes a row; with no row of u matching
\* the id (or model_id) it answers 404, with neither id nor model_id 400,
\* and in both cases nothing is deleted; it goes on to delete only with a
\* matching row.
C9_DeleteOwnRowOnly ==
    [][LET removed == DOMAIN voice_models \ DOMAIN voice_models'
       IN /\ Cardinality(removed) <= 1
          /\ \A i \in removed :
                 /\ apiResp'.op = "delete"
                 /\ apiResp'.status = 200
                 /\ voice_models[i].user_id = apiResp'.user_id
          /\ (apiResp = NoApiResp /\ apiResp'.op = "delete"
                /\ apiResp'.status # 200) =>
                 /\ removed = {}
                 /\ apiResp'.status =
                        IF apiResp'.idParam = 0 /\ apiResp'.modelId = ""
                        THEN 400 ELSE 404
                 /\ ~\E i \in DOMAIN voice_models :
                        MatchesDelete(i, apiResp'.user_id, apiResp'.idParam,
                                      apiResp'.modelId)
          /\ \A r \in apiPending' \ apiPending :
                 r.op = "delete" =>
                     \A item \in r.todo :
                         /\ item.id \in DOMAIN voice_models
                         /\ voice_models[item.id].user_id = r.user_id]_vars

\* a DELETE has removed a row while a row of another user stays
C9_Witness ==
    /\ apiResp.op = "delete"
    /\ apiResp.status = 200
    /\ apiResp.deleted \notin DOMAIN voice_models
    /\ \E i \in DOMAIN voice_models : voice_models[i].user_id # apiResp.user_id

(***************************************************************************)
(* C10.  The text and the language of speechToText.                        *)
(***************************************************************************)
\* C10, as stated: on success the text is a sample sentence of the language
\* the result reports, and that language is the requested one when it has a
\* sample table, the one detectLanguage picked otherwise.
C10_TextOfReportedLanguage ==
    sttResult.success =>
        /\ sttResult.language \in TableLanguages
        /\ sttResult.text \in Range(languageSpecificResults(sttResult.language))
        /\ sttResult.language =
               IF sttResult.requested \in TableLanguages
               THEN sttResult.requested
               ELSE sttResult.detected

\* C10 on the requests whose language is not a member of Object.prototype
C10_ExceptInheritedKeys ==
    (sttResult.success /\ sttResult.requested \notin ObjectPrototypeKeys) =>
        /\ sttResult.language \in TableLanguages
        /\ sttResult.text \in Range(languageSpecificResults(sttResult.language))
        /\ sttResult.language =
               IF sttResult.requested \in TableLanguages
               THEN sttResult.requested
               ELSE sttResult.detected

(***************************************************************************)
(* C11.  The validation of POST /api/tts.                                  *)
(***************************************************************************)
\* the requests the claim lets through: the text a non-empty string of at
\* most 5000 characters, the speed (1.0 when absent) a number between 0.5
\* and 2.0, a value that converts to such a number included
TtsRequestValid(body) ==
    /\ body.text.type = "string"
    /\ body.text.length >= 1
    /\ body.text.length <= MaxTextLength
    /\ ~ToNumber(SpeedOf(body)).nan
    /\ ToNumber(SpeedOf(body)).n >= MinSpeed
    /\ ToNumber(SpeedOf(body)).n <= MaxSpeed

\* C11, as stated: POST /api/tts calls the TTS service only for a request
\* with a valid text and a speed between 0.5 and 2.0; every other request is
\* answered 400, with no external call and no audio record added.
C11_TtsCalledOnlyIfValid ==
    [][(apiResp = NoApiResp /\ apiResp'.op = "tts"
          /\ ~TtsRequestValid(apiResp'.body)) =>
          /\ apiResp'.status = 400
          /\ apiResp'.external = "none"
          /\ UNCHANGED audio_records]_vars

\* C11 on the requests whose speed converts to a number
C11_ExceptNonNumericSpeed ==
    [][(apiResp = NoApiResp /\ apiResp'.op = "tts"
          /\ ~ToNumber(SpeedOf(apiResp'.body)).nan
          /\ ~TtsRequestValid(apiResp'.body)) =>
          /\ apiResp'.status = 400
          /\ apiResp'.external = "none"
          /\ UNCHANGED audio_records]_vars

(***************************************************************************)
(* C12.  The validation of POST /api/clone.                                *)
(***************************************************************************)
\* the requests the claim lets through: an audio file of an allowed type
\* and of at most 100 MB, a non-blank name of at most 100 characters
CloneRequestValid(form) ==
    /\ form.audio.type = "file"
    /\ form.audio.mime \in ALLOWED_AUDIO_TYPES
    /\ form.audio.size <= MAX_FILE_SIZE
    /\ form.name.type = "string"
    /\ ~form.name.blank
    /\ form.name.length <= MaxNameLength

\* C12, as stated: POST /api/clone calls the cloning service only for a
\* valid request; every other request is answered 400, with no external
\* call and no write to the database.
C12_CloneCalledOnlyIfValid ==
    [][(apiResp = NoApiResp /\ apiResp'.op = "clone"
          /\ ~CloneRequestValid(apiResp'.body)) =>
          /\ apiResp'.status = 400
          /\ apiResp'.external = "none"
          /\ UNCHANGED <<users, voice_models, audio_records>>]_vars

\* C12 on the requests whose name field is not a File
C12_ExceptFileAsName ==
    [][(apiResp = NoApiResp /\ apiResp'.op = "clone"
          /\ apiResp'.body.name.type # "file"
          /\ ~CloneRequestValid(apiResp'.body)) =>
          /\ apiResp'.status = 400
          /\ apiResp'.external = "none"
          /\ UNCHANGED <<users, voice_models, audio_records>>]_vars

(***************************************************************************)
(* C13.  A failed save does not fail the request.                          *)
(***************************************************************************)
\* the POST answered in this step left a record of its own unsaved
SaveFailed ==
    \/ UNCHANGED audio_records
    \/ apiResp'.op = "clone" /\ UNCHANGED voice_models

\* C13: a POST /api/tts, /api/stt or /api/clone whose service call
\* succeeded and whose record was not saved answers 200 with the audio,
\* the transcript of speechToText or the model id of cloneVoice.
C13_SaveFailureKeepsResult ==
    [][(apiResp = NoApiResp /\ apiResp'.op \in {"tts", "stt", "clone"}
          /\ apiResp'.serviceOk /\ SaveFailed) =>
          /\ apiResp'.status = 200
          /\ apiResp'.op = "tts" => apiResp'.payload = [kind |-> "audio"]
          /\ apiResp'.op = "stt" =>
                 apiResp'.payload = [kind |-> "transcript",
                                     text |-> sttResult'.text,
                                     language |-> sttResult'.language]
          /\ apiResp'.op = "clone" =>
                 apiResp'.payload = [kind |-> "model",
                                     model_id |-> apiResp'.cloneResult.model_id]]_vars

\* a clone was answered 200 with its model id and a warning: the voice
\* model was saved, the audio record was not
C13_Witness ==
    /\ apiResp.op = "clone"
    /\ apiResp.status = 200
    /\ apiResp.warning
    /\ apiResp.payload.kind = "model"
    /\ voice_models # <<>>
    /\ audio_records = <<>>

(***************************************************************************)
(* C14.  The sweep of initStreamingSession.                                *)
(***************************************************************************)
\* C14: an initStreamingSession call removes exactly the sessions idle for
\* more than 30 minutes, leaves every other session (the one under the id
\* being initialised apart, which it replaces) mapped to the same unchanged
\* object, and maps the new id to a session with empty audioBuffer and
\* partialResults; an accepted chunk sets the idle time of its session back
\* to zero, so a session with chunks at most 30 minutes apart is never
\* expired when a sweep runs.
C14_SweepRemovesExactlyExpired ==
    [][/\ (resp = NoResp /\ resp'.op = "init") =>
             /\ \A s \in SessionIds \ {resp'.sessionId} :
                    IF /\ HasSession(streamingSessions, s)
                       /\ heap[streamingSessions[s]].idle <= ExpiredThreshold
                    THEN /\ HasSession(streamingSessions', s)
                         /\ streamingSessions'[s] = streamingSessions[s]
                         /\ heap'[streamingSessions'[s]] = heap[streamingSessions[s]]
                    ELSE ~HasSession(streamingSessions', s)
             /\ HasSession(streamingSessions', resp'.sessionId)
             /\ heap'[streamingSessions'[resp'.sessionId]].audioBuffer = <<>>
             /\ heap'[streamingSessions'[resp'.sessionId]].partialResults = <<>>
             /\ heap'[streamingSessions'[resp'.sessionId]].idle = 0
       /\ ChunkAccepted =>
             heap'[inflight'[Len(inflight')].obj].idle = 0]_vars

\* a sweep has kept a session that holds a chunk and has been idle for
\* exactly 30 minutes
C14_Witness ==
    /\ resp.op = "init"
    /\ \E s \in DOMAIN streamingSessions \ {resp.sessionId} :
           /\ heap[streamingSessions[s]].idle = ExpiredThreshold
           /\ heap[streamingSessions[s]].audioBuffer # <<>>

(***************************************************************************)
(* C15.  The first chunk.                                                  *)
(***************************************************************************)
\* what the claim asks of the call of a first chunk that returns: the first
\* entry of the partial list as partial text, isPartial, partialResults
\* reset to that entry and the audioBuffer as it was (the session object is
\* looked at while something still refers to it)
FirstChunkEffect(call) ==
    LET session == heap[call.obj]
        partial == getLanguageSampleTexts(ResponseLanguage(session.language)).partial
    IN /\ resp'.success
       /\ Len(partial) > 0
       /\ resp'.partialText = partial[1]
       /\ resp'.isPartial
       /\ call.obj \in DOMAIN heap' =>
              /\ heap'[call.obj].partialResults = <<partial[1]>>
              /\ heap'[call.obj].audioBuffer = session.audioBuffer

\* C15, as stated: an accepted chunk flagged isFirstChunk returns the first
\* entry of the language's partial list with isPartial true, and resets the
\* session's partialResults to that one entry, keeping the audio chunks.
C15_FirstChunkResets ==
    [][(CallReturns /\ Head(inflight).isFirstChunk) =>
          FirstChunkEffect(Head(inflight))]_vars

\* C15 restricted to the sessions whose language resolves to a table.
C15_FirstChunkWhereListsExist ==
    [][(CallReturns /\ Head(inflight).isFirstChunk
          /\ getLanguageSampleTexts(
                ResponseLanguage(heap[Head(inflight).obj].language)).hasLists) =>
          FirstChunkEffect(Head(inflight))]_vars

(***************************************************************************)
(* C20.  isPartial and isFinal.                                            *)
(***************************************************************************)
\* C20, as stated: in every successful streamingSpeechToText response
\* exactly one of isPartial and isFinal is true, whatever the flags of the
\* chunk.
C20_PartialXorFinal ==
    (resp.op = "chunk" /\ resp.success) => (resp.isPartial # resp.isFinal)

\* C20 on the chunks not flagged both first and final
C20_ExceptFirstAndFinal ==
    [][(CallReturns /\ resp'.success
          /\ ~(Head(inflight).isFirstChunk /\ Head(inflight).isFinalChunk)) =>
          (resp'.isPartial # resp'.isFinal)]_vars

(***************************************************************************)
(* C16.  The audio queue of the client.                                    *)
(***************************************************************************)
\* the chunks that are being processed: encoded, or in flight to the server
BeingProcessed == {loop \in loops : loop.phase \in {"encoding", "posting"}}

\* C16: at any time at most one chunk is being processed, and the chunks
\* are POSTed in the order in which the recorder delivered them.
C16_OneChunkAtATimeInOrder ==
    /\ Cardinality(BeingProcessed) <= 1
    /\ \A i, j \in DOMAIN posted : i < j => posted[i].blob < posted[j].blob

\* C16, what the queue does keep: a chunk is POSTed at most once, for the
\* session of the recorder that delivered it.
C16_EachChunkPostedOnce ==
    \A i, j \in DOMAIN posted : posted[i].blob = posted[j].blob => i = j

(***************************************************************************)
(* C17.  Stopping a recording and the chunks that are still on their way.  *)
(***************************************************************************)
\* C17: once the DELETE for a session has been sent, no chunk POST for that
\* session is in flight or sent afterwards, and no chunk is answered
\* 'Session not found'.
C17_NoPostAfterDelete ==
    /\ \A loop \in loops :
          loop.phase = "posting" => loop.sessionId \notin deleteSent
    /\ notFound = {}

\* C17, what does hold: a chunk is answered 'Session not found' only when
\* the DELETE for its session was sent before its POST was answered.
C17_NotFoundOnlyAfterDelete ==
    \A i \in DOMAIN posted :
        posted[i].blob \in notFound => posted[i].sessionId \in deleteSent

(***************************************************************************)
(* C18.  Every session the client creates is ended.                        *)
(***************************************************************************)
\* C18: every session that a PUT of the client created is eventually ended
\* by a DELETE for its id, also when the start fails after the PUT.
C18_EverySessionEnded ==
    \A k \in Recordings : (k \in serverSessions) ~> (k \in deleteSent)

\* C18, what does hold: the session that the stop button closes over while
\* its recording runs is ended.
C18_StoppedSessionEnded ==
    \A k \in Recordings :
        (isRecording /\ stopRecording.streamingSession = k) ~> (k \in deleteSent)

(***************************************************************************)
(* C19.  The flags of the chunks the client sends.                         *)
(***************************************************************************)
\* the positions in posted of the chunks of a session
PostsOf(sessionId) == {i \in DOMAIN posted : posted[i].sessionId = sessionId}

\* C19: of the chunks POSTed for a session exactly one has isFirstChunk set
\* and it is the one POSTed first; every chunk has isFinalChunk = false.
C19_OneFirstChunkNoFinal ==
    /\ \A k \in Recordings : \A i \in PostsOf(k) :
          posted[i].isFirstChunk <=> (\A j \in PostsOf(k) : i <= j)
    /\ \A i \in DOMAIN posted : ~posted[i].isFinalChunk

\* C19, what does hold: every chunk has isFinalChunk = false, and while no
\* second recording was started the first chunk POSTed is the only one
\* with isFirstChunk set.
C19_ExceptSecondStart ==
    /\ recordings[2] = "idle" =>
          \A i \in PostsOf(1) : posted[i].isFirstChunk <=> (\A j \in PostsOf(1) : i <= j)
    /\ \A i \in DOMAIN posted : ~posted[i].isFinalChunk

(***************************************************************************)
(* C21.  The deferred deletion of a final chunk.                           *)
(***************************************************************************)
\* the session ids that a step removes from the map
RemovedIds == DOMAIN streamingSessions \ DOMAIN streamingSessions'

\* a deferred deletion fires: no other step takes a timer away
TimerFires == Len(timers') < Len(timers)

\* C21: a deferred deletion removes only the session object that received
\* its final chunk; a session initialised again under the same id in the
\* meantime stays, and no other session id is affected.
C21_TimerRemovesItsIncarnation ==
    [][TimerFires =>
          /\ \A id \in RemovedIds :
                /\ id = Head(timers).sessionId
                /\ streamingSessions[id] = Head(timers).obj
          /\ \A id \in DOMAIN streamingSessions' :
                streamingSessions'[id] = streamingSessions[id]]_vars

\* C21, what does hold: a deferred deletion removes the session that is
\* under its id when it fires, and affects no other session id.
C21_TimerRemovesItsIdOnly ==
    [][TimerFires =>
          /\ RemovedIds \subseteq {Head(timers).sessionId}
          /\ Head(timers).sessionId \notin DOMAIN streamingSessions'
          /\ \A id \in DOMAIN streamingSessions' :
                streamingSessions'[id] = streamingSessions[id]]_vars

(***************************************************************************)
(* C22.  The language of a session.                                        *)
(***************************************************************************)
\* C22: a session object gets the language its initialisation reports,
\* no step changes the language or the model of a session object, and a
\* successful answer to a chunk carries that language ('auto' as 'zh'),
\* whatever language the chunk names.
C22_LanguageFixedAtInit ==
    [][/\ \A o \in DOMAIN heap' \ DOMAIN heap :
             /\ resp'.op = "init"
             /\ heap'[o].language = resp'.language
       /\ \A o \in DOMAIN heap \cap DOMAIN heap' :
             /\ heap'[o].language = heap[o].language
             /\ heap'[o].model = heap[o].model
       /\ (CallReturns /\ resp'.success) =>
             /\ resp'.requestLanguage = Head(inflight).language
             /\ resp'.language =
                   ResponseLanguage(heap[Head(inflight).obj].language)]_vars

\* a chunk that names 'en' is answered with the 'ko' of its session, and
\* the session is still a 'ko' session
C22_Witness ==
    /\ resp.op = "chunk"
    /\ resp.success
    /\ resp.requestLanguage = "en"
    /\ resp.language = "ko"
    /\ HasSession(streamingSessions, resp.sessionId)
    /\ heap[streamingSessions[resp.sessionId]].language = "ko"

(***************************************************************************)
(* C23.  cleanupStreamingSession and DELETE /api/stt/stream.               *)
(***************************************************************************)
\* a DELETE with a session id is answered
CleanupAnswered == resp = NoResp /\ resp'.op = "cleanup" /\ resp'.sessionId # ""

\* C23: a DELETE with a session id answers success; for an existing session
\* it removes exactly that session and returns the summary of its language,
\* chunk count and partial results; for an absent one it returns no summary
\* and changes nothing; afterwards the id is absent.
C23_CleanupIdempotentAndLocal ==
    [][CleanupAnswered =>
          LET id == resp'.sessionId
          IN /\ resp'.status = 200
             /\ resp'.success
             /\ id \notin DOMAIN streamingSessions'
             /\ DOMAIN streamingSessions' = DOMAIN streamingSessions \ {id}
             /\ \A other \in DOMAIN streamingSessions' :
                   /\ streamingSessions'[other] = streamingSessions[other]
                   /\ heap'[streamingSessions'[other]] = heap[streamingSessions[other]]
             /\ UNCHANGED <<inflight, timers, isInitialized>>
             /\ IF id \in DOMAIN streamingSessions
                THEN LET session == heap[streamingSessions[id]]
                     IN /\ resp'.finalResult.present
                        /\ resp'.finalResult.language = session.language
                        /\ resp'.finalResult.totalChunks = Len(session.audioBuffer)
                        /\ resp'.finalResult.partialResults = session.partialResults
                ELSE /\ ~resp'.finalResult.present
                     /\ UNCHANGED <<streamingSessions, heap>>]_vars

\* a session with a chunk and a partial result was ended and summarised
\* while another session stayed
C23_Witness ==
    /\ resp.op = "cleanup"
    /\ resp.success
    /\ resp.finalResult.present
    /\ resp.finalResult.totalChunks > 0
    /\ resp.finalResult.partialResults # <<>>
    /\ resp.sessionId \notin DOMAIN streamingSessions
    /\ streamingSessions # <<>>

(***************************************************************************)
(* C24.  waitForReady.                                                     *)
(***************************************************************************)
\* C24: no call starts to wait on an initialised service; a suspended
\* waitForReady has made fewer than 30 attempts, the call it throws in has
\* made exactly 30, and every suspended waitForReady comes to its end.
C24_WaitForReadyTerminates ==
    /\ [][isInitialized => \A call \in waiting' : \E old \in waiting : old.id = call.id]_vars
    /\ [](\A call \in waiting : call.attempts < maxAttempts)
    /\ [](\A call \in thrown : call.attempts = maxAttempts)
    /\ \A id \in 1..MaxCalls :
          (\E call \in waiting : call.id = id) ~> (\A call \in waiting : call.id # id)

\* a loadModel call has waited its 30 attempts and returned false
C24_Witness ==
    \E call \in thrown :
        /\ call.method = "loadModel"
        /\ call.attempts = maxAttempts
        /\ call.result = "false"
        /\ waiting = {}

(***************************************************************************)
(* C25.  The service after cleanup().                                      *)
(***************************************************************************)
\* cleanup() runs (a run that finds nothing to change is no step)
CleanupRuns == cleaned' /\ loading' = loading /\ (~cleaned \/ models' # models)

\* C25: cleanup() removes every loaded model and leaves the session map;
\* from then on the service is not initialised, no speechToText, loadModel,
\* initStreamingSession or streamingSpeechToText call gets past
\* waitForReady, and every such call returns its failure after the 30
\* attempts.
C25_NoServiceAfterCleanup ==
    /\ [][CleanupRuns => models' = {} /\ UNCHANGED <<streamingSessions, heap>>]_vars
    /\ [](cleaned => ~isInitialized)
    /\ [][cleaned =>
             /\ sttResult' = sttResult
             /\ loading' \subseteq loading
             /\ nextObj' = nextObj
             /\ DOMAIN streamingSessions' \subseteq DOMAIN streamingSessions
             /\ Len(inflight') <= Len(inflight)]_vars
    /\ [](\A call \in thrown :
             call.attempts = maxAttempts /\ call.result = Failure(call.method))
    /\ \A id \in 1..MaxCalls :
          (\E call \in waiting : call.id = id) ~> (\E call \in thrown : call.id = id)

\* after cleanup() a streamingSpeechToText call for a session that is still
\* in the map has failed
C25_Witness ==
    /\ cleaned
    /\ models = {}
    /\ streamingSessions # <<>>
    /\ \E call \in thrown :
          call.method = "streamingSpeechToText" /\ call.result = "success: false"

(***************************************************************************)
(* C26.  No statement before the tables exist.                             *)
(***************************************************************************)
\* the statements of operations in the log
OperationStatements ==
    {i \in DOMAIN dbLog : dbLog[i] \notin Range(CreateStatements)}

\* C26: a statement of an operation is issued only after the three CREATE
\* TABLE statements were issued and have completed; after a failed
\* initialisation an operation that goes on rejects and issues nothing.
C26_NoQueryBeforeTables ==
    /\ [](OperationStatements # {} =>
             /\ initState = "resolved"
             /\ initStep = Len(CreateStatements)
             /\ SubSeq(dbLog, 1, Len(CreateStatements)) = CreateStatements
             /\ \A i \in OperationStatements : i > Len(CreateStatements))
    /\ [](initState = "rejected" =>
             dbLog = SubSeq(CreateStatements, 1, initStep + 1))
    /\ [](dbRejected # {} => initState = "rejected")
    /\ [][initState = "rejected" =>
             /\ dbLog' = dbLog
             /\ dbRejected' = dbRejected \cup (dbWaiting \ dbWaiting')]_vars

\* an UPDATE went out after the tables were created while another operation
\* is still to go on
C26_Witness ==
    /\ initState = "resolved"
    /\ \E i \in OperationStatements : dbLog[i] = "UPDATE voice_models"
    /\ dbWaiting # {}

\* after a failed second CREATE TABLE an operation has rejected
C26_FailedInitialisation ==
    /\ initState = "rejected"
    /\ initStep = 1
    /\ "deleteVoiceModel" \in dbRejected
    /\ dbLog = SubSeq(CreateStatements, 1, 2)

(***************************************************************************)
(* C27.  GET /api/clone: the status check.                                 *)
(***************************************************************************)
\* a GET /api/clone has answered
CheckAnswered == apiResp.op \in {"status", "list"}

\* what the answered GET checked: the rows that are still in the table and
\* for which the cloning service reported training, ready or failed
Reported ==
    {c \in apiResp.checked :
        c.id \in DOMAIN voice_models /\ c.status \in {"training", "ready", "failed"}}

\* a row that stays in the table changes only in its status, and only to
\* the status reported to a GET under way that checked it, a GET of the
\* row's user
OnlyCheckedRowsChange ==
    \A i \in DOMAIN voice_models \cap DOMAIN voice_models' :
        voice_models'[i] # voice_models[i] =>
            /\ voice_models'[i] =
                   [voice_models[i] EXCEPT !.status = voice_models'[i].status]
            /\ \E r \in apiPending :
                   /\ r.op # "delete"
                   /\ r.user_id = voice_models[i].user_id
                   /\ [id |-> i, status |-> voice_models'[i].status] \in r.checked

\* an id the table has handed out and holds no more does not come back
NeverRecreated ==
    \A i \in 1..voiceModelSeq :
        i \notin DOMAIN voice_models => i \notin DOMAIN voice_models'

C27_Overwritten ==
    /\ CheckAnswered
    /\ \E c \in Reported :
           c.id \in apiResp.others /\ voice_models[c.id].status # c.status

====
